---------------------------- MODULE Spec2Model ----------------------------
(***************************************************************************)
(* Verification model of the telemetry and command routing core:           *)
(*   - the RabbitMQ pipeline  raw packet -> Health Consumer -> decoded     *)
(*     envelope -> Alert Builder  (specification SpecPipe),                *)
(*   - the frame codec encrypt_frame / decrypt_tm_frame (SpecCodec),       *)
(*   - the per-station MQTT bridge uplink path (SpecBridge) and downlink   *)
(*     path (SpecDown),                                                    *)
(*   - broker deliveries (SpecQueue), the ingestor (SpecIngest), the DB    *)
(*     Sink (SpecSink, SpecStore), alert evaluation (SpecEval) and the     *)
(*     alert life cycle (SpecAlert),                                       *)
(*   - the schema-driven decoders (SpecDecode),                            *)
(*   - the bridge API: BridgeManager (SpecManager), Stats under threads    *)
(*     (SpecStats) and the status operation (SpecStatus).                  *)
(***************************************************************************)
EXTENDS Integers, Sequences, FiniteSets, TLC

VARIABLES
    \* ---- pipeline (health_consumer.py, builder.py) ----
    raw,          \* log of every raw message published to telemetry.raw (index = id)
    rawQueue,     \* packet name -> ids waiting in queue pkt.<name>, head first
    hcUp,         \* the Health Consumer holds an open connection and consumes
    hcHandled,    \* id -> number of times _on_message ran on that raw message
    hcAcks,       \* id -> number of basic_ack calls for that raw message
    decoded,      \* log of every envelope published to telemetry.decoded
    deadLetter,   \* log of every record put on a dead-letter sink
    abUp,         \* the Alert Builder holds an open connection and consumes
    abBound,      \* q.decoded.alerts is declared and bound to telemetry.decoded
    abQueue,      \* indices into decoded waiting in q.decoded.alerts, head first
    abHandled,    \* envelope index -> number of times callback ran on it
    abAcks,       \* envelope index -> number of basic_ack calls
    alerts,       \* log of every alert published to alert.detected
    \* ---- frame codec (encryption.py, decryption_tm.py) ----
    cFrame,       \* the input frame, a sequence of bytes
    cLayout,      \* the layout the input frame was built with
    cOp,          \* which function was applied last: "init", "enc", "dec", "rt"
    cOut,         \* the returned frame
    cErr,         \* the call raised
    cKey,         \* the AES key the last call used
    cIv,          \* the 16-byte initial counter value the last call used
    cNonce,       \* the nonce input the last call hashed
    \* ---- bridge uplink (mqtt_bridge.py, stats.py) ----
    bPc,          \* station -> position of the A-side network thread in on_message_a
    bMsg,         \* station -> the payload being handled
    bOut,         \* station -> the wrapped JSON built for that payload
    bRecv,        \* station -> number of messages received from A on cosmos/command
    bPubB,        \* log of messages published to broker B: [station, topic, body]
    counters,     \* <<station, logical topic>> -> [rx_msgs, rx_bytes, tx_msgs, tx_bytes]
    bLog,         \* logical topic -> sequence of log rows of that table
    \* ---- bridge downlink (mqtt_bridge.py) ----
    dPc,          \* station -> position of the B-side network thread in on_message_b
    dMsg,         \* station -> the message from broker B being handled
    dRaw,         \* station -> the local `raw` of on_message_b: [ok, bytes]
    dRecv,        \* station -> number of messages received from B on topic_downlink
    dPre,         \* station -> what an observer read when the message arrived
    bPubA,        \* log of messages published to broker A: [station, topic, body]
    \* ---- broker deliveries (pika consumers of the pipeline) ----
    qLog,         \* log of every raw message published to telemetry.raw (index = id)
    qReady,       \* queue name -> ids ready in that queue, head first
    qDeclared,    \* queue name -> the queue exists and is bound to its exchange
    qUnacked,     \* consumer -> deliveries [queue, id] not yet acked, oldest first
    qUp,          \* consumer -> it holds an open connection and consumes
    qHandled,     \* consumer -> id -> number of times its callback ran on that id
    qDecoded,     \* ids whose envelope was published to telemetry.decoded, in order
    \* ---- ingestor (ws_ingestor.py, streamer.py, rabbitmq.py) ----
    iBrokerUp,    \* the broker accepts connections
    iConn,        \* the publisher's connection: "none", "open", or "stale" (is_open
                  \* still reports True but the socket is dead)
    iRead,        \* log of every record read from the upstream stream
    iRaw,         \* log of every message that reached telemetry.raw: [routing_key, body]
    \* ---- DB Sink (dbworker.py, db_client.py) ----
    pgUp,         \* the Postgres server is reachable
    pgConn,       \* self.db.conn: "open", or "lost" once its server session is gone
    dbUp,         \* the DB Sink holds an open broker connection and consumes
    dbLog,        \* log of every envelope routed to q.decoded.db_persistence (index = id)
    dbQueue,      \* ids waiting in q.decoded.db_persistence, head first
    dbInserted,   \* ids whose rows were inserted into the packet's table
    dbFailed,     \* ids recorded in DECODER_FAILED
    dbAcked,      \* ids the DB Sink acked
    \* ---- alert evaluation as functions (alert_logic.py) ----
    eArgs,        \* the arguments of evaluate_metric: [value, min_v, max_v, thresholds]
    eDone,        \* evaluate_metric was applied to eArgs
    eResult,      \* what it returned
    tArgs,        \* the arguments of evaluate_tm: [tm, config_index, thresholds]
    tDone,        \* evaluate_tm was applied to tArgs
    tAlerts,      \* the alerts it returned
    \* ---- alert life cycle (worker.py, notifier.py, alert_api/main.py) ----
    aTables,      \* table name -> rows of that table (index = id), each [status]
    aDetected,    \* number of alerts published to alert.detected
    aTaken,       \* number of them the Alert Worker has handled
    aNotify,      \* messages waiting in alert.notify, head first: [db_id], 0 = none
    aSent,        \* db_ids whose notification the Notifier sent or logged
    \* ---- schema-driven decoders (health_decoders/*.py) ----
    xSchema,      \* the decoder the payload is handed to
    xData,        \* the payload: a sequence of bytes
    xPc,          \* position of _decode_from_spec: "start", "loop", "done"
    xI,           \* reader.i, the number of bytes consumed
    xCount,       \* Number_of_Instances as read from the header
    xIdx,         \* the loop index of the next instance
    xRows,        \* the rows appended so far
    xStarts,      \* loop index -> reader position at the start of that iteration
    \* ---- packet tables (db_client.py, dbworker.py) ----
    sTables,      \* table name -> [cols: column -> type, rows: the rows, oldest first]
    sKnown,       \* PostgresClient._known_tables
    sSeen,        \* log of every envelope _on_message was called with
    sFailed,      \* DECODER_FAILED: positions in sSeen whose persistence raised
    \* ---- bridge API and BridgeManager (main.py, mqtt_bridge.py) ----
    mRunners,     \* BridgeManager.runners: station -> index in mObjs, 0 = no entry
    mObjs,        \* every BridgeRunner built: [station, thread, stop]; thread is
                  \* "none", "alive" or "exited", stop is stop_event
    mReq,         \* request thread -> [pc, station, br]: its place in /connect
    mLast,        \* the last request taken and its status code
    mCount,       \* number of requests taken
    \* ---- Stats under threads (stats.py) ----
    kCounters,    \* Stats.counters of one station and topic
    kLock,        \* Stats._lock: the thread that holds it, 0 = free
    kThr,         \* thread -> [pc, dir, size, tmp]: its place in bump or snapshot
    kDone,        \* what the bumps that have returned add up to
    kSnaps,       \* the snapshots returned: [snap, seen, done]
    kCalls,       \* number of bump and snapshot calls made
    \* ---- status operation (main.py) ----
    rLive,        \* the live counters of the station's cosmos/command topic
    rRows,        \* the byte counts of the station's AtoB rows in the command log
    rLast,        \* the counters the last status call returned for the topic
    rPrev,        \* the counters the status call before it returned
    rCalls        \* number of status calls made

pipeVars == <<raw, rawQueue, hcUp, hcHandled, hcAcks, decoded, deadLetter,
              abUp, abBound, abQueue, abHandled, abAcks, alerts>>
codecVars == <<cFrame, cLayout, cOp, cOut, cErr, cKey, cIv, cNonce>>
uplinkVars == <<bPc, bMsg, bOut, bRecv, bPubB>>
bridgeVars == <<uplinkVars, counters, bLog>>
downVars == <<dPc, dMsg, dRaw, dRecv, dPre, bPubA>>
queueVars == <<qLog, qReady, qDeclared, qUnacked, qUp, qHandled, qDecoded>>
ingestVars == <<iBrokerUp, iConn, iRead, iRaw>>
sinkVars == <<pgUp, pgConn, dbUp, dbLog, dbQueue, dbInserted, dbFailed, dbAcked>>
evalVars == <<eArgs, eDone, eResult, tArgs, tDone, tAlerts>>
alertVars == <<aTables, aDetected, aTaken, aNotify, aSent>>
decVars == <<xSchema, xData, xPc, xI, xCount, xIdx, xRows, xStarts>>
storeVars == <<sTables, sKnown, sSeen, sFailed>>
mgrVars == <<mRunners, mObjs, mReq, mLast, mCount>>
statsVars == <<kCounters, kLock, kThr, kDone, kSnaps, kCalls>>
statusVars == <<rLive, rRows, rLast, rPrev, rCalls>>
lateVars == <<decVars, storeVars, mgrVars, statsVars, statusVars>>
restVars == <<queueVars, ingestVars, sinkVars, evalVars, alertVars, lateVars>>
vars == <<pipeVars, codecVars, bridgeVars, downVars, restVars>>

\* what the actions of one part leave alone
notPipe == <<codecVars, bridgeVars, downVars, restVars>>
notCodec == <<pipeVars, bridgeVars, downVars, restVars>>
notUplink == <<pipeVars, codecVars, downVars, restVars>>
notDownlink == <<pipeVars, codecVars, uplinkVars, restVars>>
firstVars == <<pipeVars, codecVars, bridgeVars, downVars>>
notQueue == <<firstVars, ingestVars, sinkVars, evalVars, alertVars, lateVars>>
notIngest == <<firstVars, queueVars, sinkVars, evalVars, alertVars, lateVars>>
notSink == <<firstVars, queueVars, ingestVars, evalVars, alertVars, lateVars>>
notEval == <<firstVars, queueVars, ingestVars, sinkVars, alertVars, lateVars>>
notAlert == <<firstVars, queueVars, ingestVars, sinkVars, evalVars, lateVars>>
midVars == <<queueVars, ingestVars, sinkVars, evalVars, alertVars>>
notDecode == <<firstVars, midVars, storeVars, mgrVars, statsVars, statusVars>>
notStore == <<firstVars, midVars, decVars, mgrVars, statsVars, statusVars>>
notManager == <<firstVars, midVars, decVars, storeVars, statsVars, statusVars>>
notStats == <<firstVars, midVars, decVars, storeVars, mgrVars, statusVars>>
notStatus == <<firstVars, midVars, decVars, storeVars, mgrVars, statsVars>>

-----------------------------------------------------------------------------
(* Bounds of the model *)

\* raw messages the ingestor publishes in one run
MaxRaw == 3
\* deliveries of one message that are followed (a redelivery loop is unbounded)
MaxDeliver == 2
\* largest value of the LEN field of the frames fed to the codec
MaxLen == 2
\* messages one station's bridge receives from broker A in one run
MaxCmd == 2
\* messages broker B delivers to the stations' bridges, all together, in one run
MaxDown == 3
\* raw messages published while the consumers' deliveries are followed
MaxQueued == 3
\* records the ingestor reads from the upstream stream in one run
MaxRead == 3
\* envelopes routed to the DB Sink's queue in one run
MaxEnv == 3
\* alerts the Alert Builder publishes to alert.detected in one run
MaxAlerts == 2

\* instances a header may announce, and whole instances a payload may hold
MaxInstances == 3

MaxSegments == 3

\* envelopes the DB Sink persists in one run
MaxStored == 3

\* requests the bridge API takes in one run
MaxRequests == 4

\* bump and snapshot calls in one run
MaxCalls == 4

\* commands bridged, and status calls made, in one run
MaxTraffic == 4

MaxStatus == 3

-----------------------------------------------------------------------------
(* Values, rows and raw messages *)

\* A decoded value: Python int/float ("num"), None ("null"), a timezone-aware
\* datetime object ("datetime", v = epoch seconds) or a str (see below).
Num(n) == [kind |-> "num", v |-> n]
Null == [kind |-> "null", v |-> 0]
DateTime(epoch) == [kind |-> "datetime", v |-> epoch]
\* a str holding the ISO-8601 text with offset of the instant `epoch`
IsoStr(epoch) == [kind |-> "str_iso", v |-> epoch]
\* a naive datetime object (no tzinfo) of the instant `epoch` read as UTC
NaiveDateTime(epoch) == [kind |-> "datetime_naive", v |-> epoch]
\* a str holding strftime('%Y-%m-%d %H:%M:%S') of the instant `epoch`: no offset
TextStr(epoch) == [kind |-> "str_ts", v |-> epoch]

\* Packet names on the bus.
PktCss == "RAW__TLM__EMULATOR__HEALTH_ADCS_CSS_VECTOR"
PktEps == "RAW__TLM__EMULATOR__HEALTH_EPS"
PktUnknown == "RAW__TLM__EMULATOR__HEALTH_UNKNOWN_X"

\* The packet names for which netra_backend.health_decoders holds a module.
DecoderModules == {PktCss, PktEps}

\* _get_decoder_for_packet: raises DecoderNotFound when no module exists.
HasDecoder(packet_name) == packet_name \in DecoderModules

\* Rows a decoder can return.  HEALTH_ADCS_CSS_VECTOR puts the datetime object of
\* _apply_transform into Epoch_Time_Human; HEALTH_EPS puts a strftime text there,
\* and leaves None in the fields of an instance it could not parse to the end.
RowCss(z) ==
    [Queue_ID |-> Num(7), Epoch_Time_Human |-> DateTime(1767948928), Sun_Vector_Z |-> z]
RowEps(v) ==
    [Queue_ID |-> Num(3), Epoch_Time_Human |-> TextStr(1767948928),
     Battery_Total_Voltage_V |-> v]

\* A raw message on telemetry.raw, described by what each step of _on_message
\* meets: json  - the body parses as JSON;  buffer - "missing", "bad_b64" or "ok";
\* raises - the decoder raises on this buffer;  rows - the rows it returns.
RawMsg(packet, json, buffer, raises, rows) ==
    [packet |-> packet, json |-> json, buffer |-> buffer, raises |-> raises, rows |-> rows]

RawMessages ==
    { RawMsg(PktCss, FALSE, "ok", FALSE, <<>>),             \* body is not JSON
      RawMsg(PktCss, TRUE, "missing", FALSE, <<>>),         \* no buffer field
      RawMsg(PktEps, TRUE, "bad_b64", FALSE, <<>>),        \* buffer is not base64
      RawMsg(PktUnknown, TRUE, "ok", FALSE, <<>>),          \* no decoder module
      RawMsg(PktEps, TRUE, "ok", TRUE, <<>>),              \* decoder raises
      RawMsg(PktCss, TRUE, "ok", FALSE, <<>>),              \* zero instances
      RawMsg(PktCss, TRUE, "ok", FALSE, <<RowCss(Num(16))>>),  \* epoch transform row
      RawMsg(PktEps, TRUE, "ok", FALSE, <<RowEps(Num(9))>>), \* text timestamp row
      RawMsg(PktEps, TRUE, "ok", FALSE, <<RowEps(Null)>>) }  \* metric is None

-----------------------------------------------------------------------------
(* Health Consumer: HealthConsumerService._on_message *)

\* json.dumps without a default= hook: raises TypeError on a datetime object.
JsonSerializable(value) == value.kind \notin {"datetime", "datetime_naive"}

RowSerializable(row) == \A k \in DOMAIN row : JsonSerializable(row[k])

json_dumps_ok(rows) == \A i \in 1..Len(rows) : RowSerializable(rows[i])

\* The payload built at lines 233-239.
Envelope(packet_name, segments, src) ==
    [packet_name |-> packet_name, routing_key |-> packet_name, data |-> segments, src |-> src]

\* Outcome of one run of _on_message on raw message m (id: its index in raw):
\*   ack    - basic_ack was called,
\*   raised - an exception left the callback,
\*   pub    - the envelopes handed to basic_publish on telemetry.decoded,
\*   dead   - the records put on a dead-letter sink.
\* Each try statement has two except clauses for the same class; Python runs the
\* first one that matches, which only logs and falls through, so the second
\* (ack and return) never runs and the local the try was to bind stays unbound.
on_message(m, id) ==
    LET Acked == [ack |-> TRUE, raised |-> FALSE, pub |-> <<>>, dead |-> <<>>]
        Raised == [ack |-> FALSE, raised |-> TRUE, pub |-> <<>>, dead |-> <<>>]
        \* lines 189-199: hex_str is bound unless _decode_buffer_to_hex raised
        hex_bound == m.buffer = "ok"
        \* lines 202-211: decoder_fn is bound unless DecoderNotFound was raised
        decoder_bound == HasDecoder(m.packet)
        \* lines 214-222: segments is bound when decoder_fn(hex_str) returned;
        \* an unbound decoder_fn or hex_str raises UnboundLocalError inside the try
        segments_bound == hex_bound /\ decoder_bound /\ ~m.raises
    IN  IF ~m.json THEN Acked                                  \* lines 172-178
        ELSE IF m.buffer = "missing" THEN Acked                \* lines 183-186
        ELSE IF ~segments_bound THEN Raised                    \* line 224: UnboundLocalError
        ELSE IF m.rows = <<>> THEN Acked                       \* lines 224-227
        ELSE IF json_dumps_ok(m.rows)                          \* lines 230-266
             THEN [Acked EXCEPT !.pub = <<Envelope(m.packet, m.rows, id)>>]
             ELSE Acked                                        \* TypeError logged, then ack

-----------------------------------------------------------------------------
(* Alert Builder: alert_logic.py and the callback of builder.py *)

\* The alert configuration (TM_alert_config.json is deployment data): the global
\* thresholds and two packet rules, indexed by queue_id as build_config_index does.
Thresholds == [yellow_percent |-> 80, amber_percent |-> 90, red_percent |-> 100]

config_index ==
    [q \in {3, 7} |->
        IF q = 7
        THEN [packet_name |-> "HEALTH_ADCS_CSS_VECTOR",
              metrics |-> <<[metric |-> "Sun_Vector_Z", min |-> Num(-10), max |-> Num(10)]>>]
        ELSE [packet_name |-> "HEALTH_EPS",
              metrics |-> <<[metric |-> "Battery_Total_Voltage_V",
                             min |-> Num(-10), max |-> Num(10)]>>]]

Min2(a, b) == IF a <= b THEN a ELSE b

\* the same quotient cut off after the second decimal instead of rounded
PercentX100_truncated(value, min_v, max_v) ==
    (10000 * ((max_v - min_v) - Min2(value - min_v, max_v - value))) \div (max_v - min_v)

\* round(100 * (1 - distance_to_limit / range_v), 2), in hundredths of a percent
PercentX100(value, min_v, max_v) ==
    LET range_v == max_v - min_v
        distance_to_limit == Min2(value - min_v, max_v - value)
    IN  (20000 * (range_v - distance_to_limit) + range_v) \div (2 * range_v)

NoAlert == [raised |-> FALSE, severity |-> "NONE", percent |-> 0]

\* evaluate_metric: the comparisons value < min_v and value > max_v raise
\* TypeError when value is None or a str.
evaluate_metric(value, min_v, max_v, thresholds) ==
    LET numeric == value.kind = "num"
        TypeError == [raised |-> TRUE, severity |-> "NONE", percent |-> 0]
        Red100 == [raised |-> FALSE, severity |-> "RED", percent |-> 10000]
    IN  IF min_v.kind # "null" /\ ~numeric THEN TypeError
        ELSE IF min_v.kind # "null" /\ value.v < min_v.v THEN Red100
        ELSE IF max_v.kind # "null" /\ ~numeric THEN TypeError
        ELSE IF max_v.kind # "null" /\ value.v > max_v.v THEN Red100
        ELSE IF min_v.kind = "null" \/ max_v.kind = "null" \/ max_v.v = min_v.v THEN NoAlert
        ELSE LET percent_used == PercentX100(value.v, min_v.v, max_v.v)
             IN  IF percent_used >= 100 * thresholds.red_percent
                 THEN [raised |-> FALSE, severity |-> "RED", percent |-> percent_used]
                 ELSE IF percent_used >= 100 * thresholds.amber_percent
                 THEN [raised |-> FALSE, severity |-> "AMBER", percent |-> percent_used]
                 ELSE IF percent_used >= 100 * thresholds.yellow_percent
                 THEN [raised |-> FALSE, severity |-> "YELLOW", percent |-> percent_used]
                 ELSE NoAlert

\* the same choice without the packet's own thresholds
active_thresholds_globalOnly(packet_cfg, thresholds) == thresholds

\* line 88: packet_cfg.get("thresholds", thresholds)
active_thresholds(packet_cfg, thresholds) ==
    IF "thresholds" \in DOMAIN packet_cfg THEN packet_cfg.thresholds ELSE thresholds

\* The inner loop of evaluate_tm over the configured metrics of one row.
RECURSIVE EvalMetrics(_, _, _, _, _)
EvalMetrics(inst, metrics, active, k, e) ==
    IF k > Len(metrics) THEN [raised |-> FALSE, alerts |-> <<>>]
    ELSE LET limits == metrics[k]
             rest == EvalMetrics(inst, metrics, active, k + 1, e)
         IN  IF limits.metric \notin DOMAIN inst THEN rest
             ELSE LET result == evaluate_metric(inst[limits.metric], limits.min,
                                                limits.max, active)
                  IN  IF result.raised THEN [raised |-> TRUE, alerts |-> <<>>]
                      ELSE IF result.severity = "NONE" THEN rest
                      ELSE [raised |-> rest.raised,
                            alerts |-> <<[metric |-> limits.metric, value |-> inst[limits.metric],
                                          min |-> limits.min, max |-> limits.max,
                                          queue_id |-> inst.Queue_ID.v,
                                          severity |-> result.severity,
                                          severity_percent |-> result.percent,
                                          status |-> "alert_identified", env |-> e]>>
                                       \o rest.alerts]

\* evaluate_tm: the alerts of every row of the envelope with a known Queue_ID.
RECURSIVE evaluate_tm(_, _, _, _, _)
evaluate_tm(tm, cfg, thresholds, i, e) ==
    IF i > Len(tm.data) THEN [raised |-> FALSE, alerts |-> <<>>]
    ELSE LET inst == tm.data[i]
             rest == evaluate_tm(tm, cfg, thresholds, i + 1, e)
             known == /\ "Queue_ID" \in DOMAIN inst
                      /\ inst.Queue_ID.kind = "num"
                      /\ inst.Queue_ID.v \in DOMAIN cfg
         IN  IF ~known THEN rest
             ELSE LET packet_cfg == cfg[inst.Queue_ID.v]
                      here == EvalMetrics(inst, packet_cfg.metrics,
                                          active_thresholds(packet_cfg, thresholds), 1, e)
                  IN  IF here.raised \/ rest.raised THEN [raised |-> TRUE, alerts |-> <<>>]
                      ELSE [raised |-> FALSE, alerts |-> here.alerts \o rest.alerts]

\* Outcome of one run of callback on envelope number e of telemetry.decoded.
\* evaluate_tm is called outside any try: when it raises, the exception leaves
\* the callback before basic_publish and basic_ack.
callback(tm, e) ==
    LET r == evaluate_tm(tm, config_index, Thresholds, 1, e)
    IN  IF r.raised THEN [ack |-> FALSE, raised |-> TRUE, alerts |-> <<>>]
        ELSE [ack |-> TRUE, raised |-> FALSE, alerts |-> r.alerts]

-----------------------------------------------------------------------------
(* DB Sink: _convert_datetime_fields *)

\* A str that matches ISO_DATETIME_PATTERN is parsed with fromisoformat: text with
\* an offset gives an aware datetime, text without one a naive datetime; every
\* other value is kept.
ConvertValue(value) ==
    IF value.kind = "str_iso" THEN DateTime(value.v)
    ELSE IF value.kind = "str_ts" THEN NaiveDateTime(value.v)
    ELSE value

convert_datetime_fields(rows) ==
    [i \in 1..Len(rows) |-> [k \in DOMAIN rows[i] |-> ConvertValue(rows[i][k])]]

-----------------------------------------------------------------------------
(* The pipeline as a state machine *)

Packets == {PktCss, PktEps, PktUnknown}

PipeInit ==
    /\ raw = <<>>
    /\ rawQueue = [p \in Packets |-> <<>>]
    /\ hcUp = FALSE
    /\ hcHandled = [i \in 1..MaxRaw |-> 0]
    /\ hcAcks = [i \in 1..MaxRaw |-> 0]
    /\ decoded = <<>>
    /\ deadLetter = <<>>
    /\ abUp = FALSE
    /\ abBound = FALSE
    /\ abQueue = <<>>
    /\ abHandled = [i \in 1..MaxRaw |-> 0]
    /\ abAcks = [i \in 1..MaxRaw |-> 0]
    /\ alerts = <<>>

\* ws_ingestor forwards one upstream record to telemetry.raw, routing key = __packet;
\* the queue pkt.<name> bound by that key receives it.
IngestPublish(m) ==
    /\ Len(raw) < MaxRaw
    /\ raw' = Append(raw, m)
    /\ rawQueue' = [rawQueue EXCEPT ![m.packet] = Append(@, Len(raw) + 1)]
    /\ UNCHANGED <<hcUp, hcHandled, hcAcks, decoded, deadLetter,
                   abUp, abBound, abQueue, abHandled, abAcks, alerts>>
    /\ UNCHANGED notPipe

\* run_forever -> _consume_once: connect and subscribe to every pkt.<name>.
HCConnect ==
    /\ ~hcUp
    /\ hcUp' = TRUE
    /\ UNCHANGED <<raw, rawQueue, hcHandled, hcAcks, decoded, deadLetter,
                   abUp, abBound, abQueue, abHandled, abAcks, alerts>>
    /\ UNCHANGED notPipe

\* The broker delivers the head of pkt.<p> and _on_message runs on it.  An ack
\* removes the message; an exception leaves start_consuming, _consume_once closes
\* the connection (the unacked message is requeued at the head) and run_forever
\* reconnects after 5 s.
HCDeliver(p) ==
    /\ hcUp
    /\ rawQueue[p] # <<>>
    /\ LET id == Head(rawQueue[p])
           r == on_message(raw[id], id)
       IN  /\ hcHandled[id] < MaxDeliver
           /\ hcHandled' = [hcHandled EXCEPT ![id] = @ + 1]
           /\ hcAcks' = IF r.ack THEN [hcAcks EXCEPT ![id] = @ + 1] ELSE hcAcks
           /\ rawQueue' = IF r.ack THEN [rawQueue EXCEPT ![p] = Tail(@)] ELSE rawQueue
           /\ hcUp' = ~r.raised
           /\ decoded' = decoded \o r.pub
           /\ deadLetter' = deadLetter \o r.dead
           /\ abQueue' = IF abBound /\ r.pub # <<>>
                          THEN Append(abQueue, Len(decoded) + 1) ELSE abQueue
    /\ UNCHANGED <<raw, abUp, abBound, abHandled, abAcks, alerts>>
    /\ UNCHANGED notPipe

\* builder.main: connect, declare and bind q.decoded.alerts, start consuming.
ABConnect ==
    /\ ~abUp
    /\ abUp' = TRUE
    /\ abBound' = TRUE
    /\ UNCHANGED <<raw, rawQueue, hcUp, hcHandled, hcAcks, decoded, deadLetter,
                   abQueue, abHandled, abAcks, alerts>>
    /\ UNCHANGED notPipe

\* The broker delivers the head of q.decoded.alerts and callback runs on it.  An
\* exception leaves start_consuming and is caught by the while loop of main, which
\* reconnects after 3 s; the unacked envelope goes back to the head of the queue.
ABDeliver ==
    /\ abUp
    /\ abQueue # <<>>
    /\ LET e == Head(abQueue)
           r == callback(decoded[e], e)
       IN  /\ abHandled[e] < MaxDeliver
           /\ abHandled' = [abHandled EXCEPT ![e] = @ + 1]
           /\ abAcks' = IF r.ack THEN [abAcks EXCEPT ![e] = @ + 1] ELSE abAcks
           /\ abQueue' = IF r.ack THEN Tail(abQueue) ELSE abQueue
           /\ abUp' = ~r.raised
           /\ alerts' = alerts \o r.alerts
    /\ UNCHANGED <<raw, rawQueue, hcUp, hcHandled, hcAcks, decoded, deadLetter, abBound>>
    /\ UNCHANGED notPipe

PipeNext ==
    \/ \E m \in RawMessages : IngestPublish(m)
    \/ HCConnect
    \/ \E p \in Packets : HCDeliver(p)
    \/ ABConnect
    \/ ABDeliver

-----------------------------------------------------------------------------
(* Frame codec: encryption.py and decryption_tm.py *)

\* The codec works on hex strings produced by bytes.hex(); every index it uses
\* is even, so hex[2a:2b] is the byte slice [a:b] and the model keeps bytes.

Max2(a, b) == IF a >= b THEN a ELSE b

\* Python's s[a:b] on a sequence (0-based, negative indices count from the end,
\* out-of-range indices are clamped).
PySlice(s, a, b) ==
    LET n == Len(s)
        lo == IF a < 0 THEN Max2(a + n, 0) ELSE Min2(a, n)
        hi == IF b < 0 THEN Max2(b + n, 0) ELSE Min2(b, n)
    IN  IF lo >= hi THEN <<>> ELSE SubSeq(s, lo + 1, hi)

\* Python's s[a:]
PyFrom(s, a) ==
    LET n == Len(s)
        lo == IF a < 0 THEN Max2(a + n, 0) ELSE Min2(a, n)
    IN  IF lo >= n THEN <<>> ELSE SubSeq(s, lo + 1, n)

\* s[::-1]
Reverse(s) == [i \in 1..Len(s) |-> s[Len(s) + 1 - i]]

\* int.from_bytes(b, "big") and int.from_bytes(b, "little")
RECURSIVE FromBytesBig(_)
FromBytesBig(b) ==
    IF b = <<>> THEN 0 ELSE 256 * FromBytesBig(SubSeq(b, 1, Len(b) - 1)) + b[Len(b)]

FromBytesLittle(b) == FromBytesBig(Reverse(b))

RECURSIVE Xor(_, _)
Xor(a, b) ==
    IF a = 0 THEN b
    ELSE IF b = 0 THEN a
    ELSE 2 * Xor(a \div 2, b \div 2) + ((a + b) % 2)

RECURSIVE WeightedSum(_, _, _)
WeightedSum(s, i, k) ==
    IF i > Len(s) THEN 0 ELSE (i + k) * s[i] + WeightedSum(s, i + 1, k)

\* hashlib.sha256(nonce_input).digest(): 32 bytes, a function of every input
\* byte and of the input length (a stand-in for the hash that keeps just that).
Sha256(input) ==
    [k \in 1..32 |-> (WeightedSum(input, 1, k) + 131 * k + 7 * Len(input)) % 256]

\* The two compiled-in 256-bit keys.
KEY0_HEX == "754272407753446f542d5f6a4c74515e4e24363041333555504f4d77543d5774"
KEY1_HEX == "552451675E6F5E6771456C535E78652665517850623365723643264768266A6D"
\* KEY_HEX of decryption_tm.py and KEY_HEX of encryption.py are the same string
KEY_HEX == KEY0_HEX

\* first byte of a key
KeyByte(key_hex) == IF key_hex = KEY0_HEX THEN 117 ELSE 85

\* AES.new(key, MODE_CTR, nonce=b"", initial_value=iv).encrypt(region): region
\* XOR keystream, the keystream a function of the key, of the whole 128-bit
\* initial counter value and of the position (a stand-in for AES that keeps
\* just that; encrypt and decrypt are the same operation).
KeyStream(key_hex, iv, pos) ==
    (KeyByte(key_hex) + WeightedSum(iv, 1, pos) + 29 * pos + 1) % 256

AesCtr(key_hex, iv, region) ==
    [i \in 1..Len(region) |-> Xor(region[i], KeyStream(key_hex, iv, i))]

\* A slip that would read the SEQ bytes big-endian as they stand.
NonceBytes_bigEndian(digest, seq) ==
    IF FromBytesBig(seq) % 2 = 0 THEN PySlice(digest, 0, 16) ELSE PyFrom(digest, 16)

\* The rule both functions apply to the digest: SEQ is reversed and read
\* big-endian; even -> digest[:16], odd -> digest[16:].
SeqVal(seq) == FromBytesBig(Reverse(seq))

NonceBytes(digest, seq) ==
    IF SeqVal(seq) % 2 = 0 THEN PySlice(digest, 0, 16) ELSE PyFrom(digest, 16)

\* A slip that would start the encrypted region at the LEN field.
TcRegion_fromLenField(payload) ==
    LET tc_len == FromBytesLittle(PySlice(payload, 19, 21))
    IN  [tc_data_start |-> 19, crc_index |-> 21 + tc_len]

\* Where encrypt_frame finds the TC data and the CRC in the payload.
TcRegion(payload) ==
    LET tc_len == FromBytesLittle(PySlice(payload, 19, 21))
        tc_data_start == 21
    IN  [tc_data_start |-> tc_data_start, crc_index |-> tc_data_start + tc_len]

\* encrypt_frame, with the values it computes on the way.
EncryptParts(frame) ==
    LET csp == PySlice(frame, 0, 4)
        hmac == PySlice(frame, -33, -1)
        eof == PyFrom(frame, -1)
        payload == PySlice(frame, 4, -33)
        timestamp == PySlice(payload, 3, 7)
        seq == PySlice(payload, 7, 9)
        sat_id == PySlice(payload, 9, 10)
        src_id == PySlice(payload, 12, 13)
        dest_id == PySlice(payload, 13, 14)
        tc_id == PySlice(payload, 15, 17)
        tc_data_start == TcRegion(payload).tc_data_start
        crc_index == TcRegion(payload).crc_index
        encrypt_region == PySlice(payload, tc_data_start, crc_index + 1)
        nonce_input == timestamp \o seq \o src_id \o <<0>> \o dest_id \o <<0>>
                       \o tc_id \o sat_id \o <<0>>
        nonce_bytes == NonceBytes(Sha256(nonce_input), seq)
        key == KEY_HEX
        encrypted == AesCtr(key, nonce_bytes, encrypt_region)
        new_payload == PySlice(payload, 0, tc_data_start) \o encrypted
                       \o PyFrom(payload, crc_index + 1)
    IN  [out |-> csp \o new_payload \o hmac \o eof, err |-> FALSE,
         key |-> key, iv |-> nonce_bytes, nonce |-> nonce_input]

encrypt_frame(frame) == EncryptParts(frame).out

\* _derive_tm_nonce
TmNonceInput(payload) ==
    LET timestamp == PySlice(payload, 3, 7)
        seq == PySlice(payload, 7, 9)
        sat_id == PySlice(payload, 9, 10)
        src_id == PySlice(payload, 11, 12)
        dest_id == PySlice(payload, 12, 13)
        tm_id == PySlice(payload, 14, 16)
    IN  timestamp \o seq \o src_id \o <<0>> \o dest_id \o <<0>> \o tm_id \o sat_id \o <<0>>

derive_tm_nonce(payload) ==
    NonceBytes(Sha256(TmNonceInput(payload)), PySlice(payload, 7, 9))

\* The key decrypt_tm_frame uses when called with the default key_hex.
TmKey(payload) ==
    LET extended_hdr_data == payload[17 + 1]
    IN  IF extended_hdr_data = 0 THEN KEY0_HEX
        ELSE IF extended_hdr_data = 1 THEN KEY1_HEX
        ELSE KEY_HEX

\* decrypt_tm_frame(frame_hex) as the bridge calls it, with the values it computes.
DecryptParts(frame) ==
    LET csp == PySlice(frame, 0, 4)
        hmac == PySlice(frame, -33, -1)
        eof == PyFrom(frame, -1)
        payload == PySlice(frame, 4, -33)
        tm_len == FromBytesLittle(PySlice(payload, 20, 22))
        tm_data_start == 22
        crc_index == tm_data_start + tm_len
    IN  IF crc_index >= Len(payload)
        THEN [out |-> <<>>, err |-> TRUE, key |-> "", iv |-> <<>>, nonce |-> <<>>]
        ELSE LET encrypted_region == PySlice(payload, tm_data_start, crc_index + 1)
                 key == TmKey(payload)
                 nonce_bytes == derive_tm_nonce(payload)
                 decrypted_region == AesCtr(key, nonce_bytes, encrypted_region)
                 new_payload == PySlice(payload, 0, tm_data_start) \o decrypted_region
                                \o PyFrom(payload, crc_index + 1)
             IN  [out |-> csp \o new_payload \o hmac \o eof, err |-> FALSE,
                  key |-> key, iv |-> nonce_bytes, nonce |-> TmNonceInput(payload)]

decrypt_tm_frame(frame) == DecryptParts(frame).out

-----------------------------------------------------------------------------
(* Frames fed to the codec *)

CSP == <<152, 186, 118, 0>>
AUTH == [i \in 1..32 |-> 200 + i]
EOF == <<126>>

\* SOF1 SOF2 CTRL TIMESTAMP(4) SEQ(2) SAT_ID: the ten bytes every layout starts with
Prefix(seq) == <<165, 90, 1>> \o <<16, 32, 48, 64>> \o seq \o <<9>>

LenLE(n) == <<n % 256, n \div 256>>

\* The header of the wire format of the data model: 23 bytes, EXT_HDR_DATA at
\* byte 18 and LEN at bytes 21-22 (counted after the CSP).
WireHeader(seq, ext, n) ==
    Prefix(seq) \o <<2, 1, 17, 34, 3>> \o <<0, 5>> \o <<1, ext>> \o <<0, 7>> \o LenLE(n)

\* The header encrypt_frame reads: 21 bytes, source and destination at bytes 12
\* and 13, id at 15-16, LEN at bytes 19-20, data from byte 21.
TcHeader(seq, n) ==
    Prefix(seq) \o <<2, 1, 17, 34, 3>> \o <<0, 5>> \o <<0, 7>> \o LenLE(n)

\* The header in the docstring of _derive_tm_nonce: 22 bytes, source and
\* destination at bytes 11 and 12, id at 14-15, extended header data at byte 17,
\* LEN at bytes 20-21, data from byte 22.
TmHeader(seq, ext, n) ==
    Prefix(seq) \o <<1, 17, 34, 3>> \o <<0, 5>> \o <<1, ext>> \o <<0, 7>> \o LenLE(n)

Header(layout, seq, ext, n) ==
    IF layout = "wire" THEN WireHeader(seq, ext, n)
    ELSE IF layout = "tc" THEN TcHeader(seq, n)
    ELSE TmHeader(seq, ext, n)

HeaderLen(layout) == Len(Header(layout, <<0, 0>>, 0, 0))

\* offset (after the CSP) of the EXT_HDR_DATA byte; the tc layout has none
ExtOffset(layout) == IF layout = "wire" THEN 18 ELSE 17

Frame(layout, seq, ext, data) ==
    CSP \o Header(layout, seq, ext, Len(data)) \o data \o <<77>> \o AUTH \o EOF

DataBytes == {0, 4}

Datas == UNION { [1..n -> DataBytes] : n \in 0..MaxLen }

SeqBytes == { <<3, 0>>, <<2, 0>>, <<2, 1>>, <<3, 1>> }

\* Frames with a full layout, and byte strings too short to hold one (an MQTT
\* payload on cosmos/command can be any byte string).
LaidOutFrames ==
    { [layout |-> l, bytes |-> Frame(l, sq, x, d)] :
        l \in {"wire", "tc", "tm"}, sq \in SeqBytes, x \in {0, 1}, d \in Datas }

ShortFrames ==
    { [layout |-> "short", bytes |-> [i \in 1..n |-> i]] : n \in {0, 1, 3, 8, 36, 37, 40} }

FrameInputs == LaidOutFrames \cup ShortFrames

-----------------------------------------------------------------------------
(* The codec as a state machine: one frame, the functions applied to it *)

CodecInit ==
    /\ \E f \in FrameInputs : cFrame = f.bytes /\ cLayout = f.layout
    /\ cOp = "init"
    /\ cOut = <<>>
    /\ cErr = FALSE
    /\ cKey = ""
    /\ cIv = <<>>
    /\ cNonce = <<>>

Apply(r, op) ==
    /\ cOp' = op
    /\ cOut' = r.out
    /\ cErr' = r.err
    /\ cKey' = r.key
    /\ cIv' = r.iv
    /\ cNonce' = r.nonce
    /\ UNCHANGED <<cFrame, cLayout>>

\* encrypt_frame(F)
Encrypt == cOp = "init" /\ Apply(EncryptParts(cFrame), "enc") /\ UNCHANGED notCodec

\* decrypt_tm_frame(F)
Decrypt == cOp = "init" /\ Apply(DecryptParts(cFrame), "dec") /\ UNCHANGED notCodec

\* decrypt_tm_frame(encrypt_frame(F)): the encrypted frame comes back and is decrypted
DecryptEcho == cOp = "enc" /\ Apply(DecryptParts(cOut), "rt") /\ UNCHANGED notCodec

CodecNext == Encrypt \/ Decrypt \/ DecryptEcho

-----------------------------------------------------------------------------
(* Bridge uplink: BridgeRunner._worker.on_message_a, BridgeRunner._log, Stats.bump *)

Stations == {"gs1", "gs2"}

topic_uplink(station) == IF station = "gs1" THEN "gs1/uplink" ELSE "gs2/uplink"

topic_downlink(station) == IF station = "gs1" THEN "gs1/downlink" ELSE "gs2/downlink"

TOPIC_COSMOS_COMMAND == "cosmos/command"
TOPIC_COSMOS_TELEMETRY == "cosmos/telemetry"
LOGICAL_TOPICS == {"cosmos/command", "cosmos/telemetry", "SatOS/uplink", "SatOS/downlink"}

\* Payloads broker A delivers on cosmos/command.
CommandPayloads ==
    { <<>>, [i \in 1..8 |-> i], Frame("tc", <<2, 0>>, 0, <<0, 4>>) }

\* base64.b64encode: three bytes become four 6-bit symbols; 64 stands for '='.
RECURSIVE b64encode(_)
b64encode(b) ==
    IF Len(b) = 0 THEN <<>>
    ELSE IF Len(b) = 1
    THEN <<b[1] \div 4, (b[1] % 4) * 16, 64, 64>>
    ELSE IF Len(b) = 2
    THEN <<b[1] \div 4, (b[1] % 4) * 16 + b[2] \div 16, (b[2] % 16) * 4, 64>>
    ELSE <<b[1] \div 4, (b[1] % 4) * 16 + b[2] \div 16,
           (b[2] % 16) * 4 + b[3] \div 64, b[3] % 64>> \o b64encode(SubSeq(b, 4, Len(b)))

\* json.dumps({"message": b64}).encode(): the object and the length of its text,
\* 13 characters before the base64 text and 2 after it.
WrapJson(b64) == [message |-> b64, len |-> 15 + Len(b64)]

_zero == [rx_msgs |-> 0, rx_bytes |-> 0, tx_msgs |-> 0, tx_bytes |-> 0]

\* A slip that would test the direction the wrong way round.
bump_swapped(c, station_id, topic, direction, byte_cnt) ==
    IF topic \notin LOGICAL_TOPICS THEN c
    ELSE IF direction # "rx"
    THEN [c EXCEPT ![<<station_id, topic>>] =
             [@ EXCEPT !.rx_msgs = @ + 1, !.rx_bytes = @ + byte_cnt]]
    ELSE [c EXCEPT ![<<station_id, topic>>] =
             [@ EXCEPT !.tx_msgs = @ + 1, !.tx_bytes = @ + byte_cnt]]

\* Stats.bump on the counter table c (the body runs under Stats._lock).
bump(c, station_id, topic, direction, byte_cnt) ==
    IF topic \notin LOGICAL_TOPICS THEN c
    ELSE IF direction = "rx"
    THEN [c EXCEPT ![<<station_id, topic>>] =
             [@ EXCEPT !.rx_msgs = @ + 1, !.rx_bytes = @ + byte_cnt]]
    ELSE [c EXCEPT ![<<station_id, topic>>] =
             [@ EXCEPT !.tx_msgs = @ + 1, !.tx_bytes = @ + byte_cnt]]

\* The row BridgeRunner._log builds for the runner of station self_station_id.
LogRow(self_station_id, direction, nbytes, payload, mqtt_topic) ==
    [direction |-> direction, bytes |-> nbytes, raw_blob |-> payload,
     station_id |-> self_station_id, mqtt_topic |-> mqtt_topic]

BridgeInit ==
    /\ bPc = [s \in Stations |-> "idle"]
    /\ bMsg = [s \in Stations |-> <<>>]
    /\ bOut = [s \in Stations |-> WrapJson(<<>>)]
    /\ bRecv = [s \in Stations |-> 0]
    /\ bPubB = <<>>
    /\ counters = [k \in Stations \X LOGICAL_TOPICS |-> _zero]
    /\ bLog = [t \in LOGICAL_TOPICS |-> <<>>]

\* Broker A delivers a message on cosmos/command to the client of station s:
\* paho calls on_message_a on that client's network thread.
RecvA(s, payload) ==
    /\ bPc[s] = "idle"
    /\ bRecv[s] < MaxCmd
    /\ bMsg' = [bMsg EXCEPT ![s] = payload]
    /\ bRecv' = [bRecv EXCEPT ![s] = @ + 1]
    /\ bPc' = [bPc EXCEPT ![s] = "publish"]
    /\ UNCHANGED <<bOut, bPubB, counters, bLog>>
    /\ UNCHANGED notUplink

\* lines 103-120: hex, encrypt_frame, base64, JSON, peer.publish(topic_uplink, out_json)
PublishB(s) ==
    /\ bPc[s] = "publish"
    /\ LET out_json == WrapJson(b64encode(encrypt_frame(bMsg[s])))
       IN  /\ bOut' = [bOut EXCEPT ![s] = out_json]
           /\ bPubB' = Append(bPubB, [station |-> s, topic |-> topic_uplink(s),
                                      body |-> out_json])
    /\ bPc' = [bPc EXCEPT ![s] = "bump_rx"]
    /\ UNCHANGED <<bMsg, bRecv, counters, bLog>>
    /\ UNCHANGED notUplink

\* line 123
BumpRx(s) ==
    /\ bPc[s] = "bump_rx"
    /\ counters' = bump(counters, s, TOPIC_COSMOS_COMMAND, "rx", Len(bMsg[s]))
    /\ bPc' = [bPc EXCEPT ![s] = "bump_tx"]
    /\ UNCHANGED <<bMsg, bOut, bRecv, bPubB, bLog>>
    /\ UNCHANGED notUplink

\* line 124
BumpTx(s) ==
    /\ bPc[s] = "bump_tx"
    /\ counters' = bump(counters, s, "SatOS/uplink", "tx", bOut[s].len)
    /\ bPc' = [bPc EXCEPT ![s] = "log_rx"]
    /\ UNCHANGED <<bMsg, bOut, bRecv, bPubB, bLog>>
    /\ UNCHANGED notUplink

\* lines 129-130: the raw payload, logged on cosmos/command
LogRx(s) ==
    /\ bPc[s] = "log_rx"
    /\ bLog' = [bLog EXCEPT ![TOPIC_COSMOS_COMMAND] =
                   Append(@, LogRow(s, "AtoB", Len(bMsg[s]), bMsg[s], TOPIC_COSMOS_COMMAND))]
    /\ bPc' = [bPc EXCEPT ![s] = "log_tx"]
    /\ UNCHANGED <<bMsg, bOut, bRecv, bPubB, counters>>
    /\ UNCHANGED notUplink

\* lines 131-135: the wrapped JSON, logged on SatOS/uplink
LogTx(s) ==
    /\ bPc[s] = "log_tx"
    /\ bLog' = [bLog EXCEPT !["SatOS/uplink"] =
                   Append(@, LogRow(s, "AtoB", bOut[s].len, bOut[s], topic_uplink(s)))]
    /\ bPc' = [bPc EXCEPT ![s] = "idle"]
    /\ UNCHANGED <<bMsg, bOut, bRecv, bPubB, counters>>
    /\ UNCHANGED notUplink

BridgeNext ==
    \E s \in Stations :
        \/ \E payload \in CommandPayloads : RecvA(s, payload)
        \/ PublishB(s)
        \/ BumpRx(s)
        \/ BumpTx(s)
        \/ LogRx(s)
        \/ LogTx(s)

-----------------------------------------------------------------------------
(* Bridge downlink: BridgeRunner._worker.on_message_b *)

\* A message broker B delivers on topic_downlink, described by what the try block
\* of on_message_b meets: kind "bad_json" - json.loads raises; "no_message" - the
\* JSON value has no key "message"; "bad_b64" - base64.b64decode raises; "ok" -
\* the base64 text decodes to the bytes `frame`.  len is len(msg.payload).
DownMsg(kind, frame) ==
    [kind |-> kind, frame |-> frame,
     len |-> IF kind = "ok" THEN WrapJson(b64encode(frame)).len ELSE 9]

\* a TM frame whose LEN field counts more data bytes than the frame holds
TruncatedTmFrame ==
    CSP \o TmHeader(<<2, 0>>, 0, 9) \o <<0, 4>> \o <<77>> \o AUTH \o EOF

DownMessages ==
    { DownMsg("bad_json", <<>>),
      DownMsg("bad_b64", <<>>),
      DownMsg("ok", TruncatedTmFrame),
      DownMsg("ok", Frame("tm", <<2, 0>>, 1, <<0, 4>>)) }

None == [ok |-> FALSE, bytes |-> <<>>]

\* A slip that would forward the frame as received when decryption fails.
try_block_forwardUndecrypted(m) ==
    IF m.kind # "ok" THEN None ELSE [ok |-> TRUE, bytes |-> m.frame]

\* Lines 161-181: the value of `raw` after the try statement, and whether the
\* else branch runs (ok).
try_block(m) ==
    IF m.kind # "ok" THEN None
    ELSE LET r == DecryptParts(m.frame)
         IN  IF r.err THEN None ELSE [ok |-> TRUE, bytes |-> r.out]

\* what an observer of station s reads: the cosmos/telemetry and SatOS/downlink
\* counters of s, the number of log rows of s in both tables, and the number of
\* messages s published to broker A
Observe(s) ==
    [tlm |-> counters[<<s, TOPIC_COSMOS_TELEMETRY>>],
     down |-> counters[<<s, "SatOS/downlink">>],
     tlmRows |-> Cardinality({k \in 1..Len(bLog[TOPIC_COSMOS_TELEMETRY]) :
                                 bLog[TOPIC_COSMOS_TELEMETRY][k].station_id = s}),
     downRows |-> Cardinality({k \in 1..Len(bLog["SatOS/downlink"]) :
                                  bLog["SatOS/downlink"][k].station_id = s}),
     pubA |-> Cardinality({k \in 1..Len(bPubA) : bPubA[k].station = s})]

RECURSIVE SumOver(_, _)
SumOver(f, S) ==
    IF S = {} THEN 0
    ELSE LET x == CHOOSE y \in S : TRUE IN f[x] + SumOver(f, S \ {x})

\* messages received from broker B so far, over all stations
DownReceived == SumOver(dRecv, Stations)

DownInit ==
    /\ dPc = [s \in Stations |-> "idle"]
    /\ dMsg = [s \in Stations |-> DownMsg("bad_json", <<>>)]
    /\ dRaw = [s \in Stations |-> None]
    /\ dRecv = [s \in Stations |-> 0]
    /\ dPre = [s \in Stations |-> [tlm |-> _zero, down |-> _zero, tlmRows |-> 0,
                                   downRows |-> 0, pubA |-> 0]]
    /\ bPubA = <<>>

\* Broker B delivers a message on topic_downlink to the client of station s:
\* paho calls on_message_b on that client's network thread.
RecvB(s, m) ==
    /\ dPc[s] = "idle"
    /\ DownReceived < MaxDown
    /\ dMsg' = [dMsg EXCEPT ![s] = m]
    /\ dRecv' = [dRecv EXCEPT ![s] = @ + 1]
    /\ dPre' = [dPre EXCEPT ![s] = Observe(s)]
    /\ dPc' = [dPc EXCEPT ![s] = "bump_rx"]
    /\ UNCHANGED <<dRaw, bPubA, counters, bLog>>
    /\ UNCHANGED notDownlink

\* line 157
DownBumpRx(s) ==
    /\ dPc[s] = "bump_rx"
    /\ counters' = bump(counters, s, "SatOS/downlink", "rx", dMsg[s].len)
    /\ dPc' = [dPc EXCEPT ![s] = "try"]
    /\ UNCHANGED <<dMsg, dRaw, dRecv, dPre, bPubA, bLog>>
    /\ UNCHANGED notDownlink

\* lines 159-186: the try statement and, when nothing was raised, the publish of
\* the decrypted bytes to broker A
TryPublishA(s) ==
    /\ dPc[s] = "try"
    /\ LET raw_ == try_block(dMsg[s])
       IN  /\ dRaw' = [dRaw EXCEPT ![s] = raw_]
           /\ bPubA' = IF raw_.ok
                       THEN Append(bPubA, [station |-> s, topic |-> TOPIC_COSMOS_TELEMETRY,
                                           body |-> raw_.bytes])
                       ELSE bPubA
           /\ dPc' = [dPc EXCEPT ![s] = IF raw_.ok THEN "bump_tx" ELSE "log_down"]
    /\ UNCHANGED <<dMsg, dRecv, dPre, counters, bLog>>
    /\ UNCHANGED notDownlink

\* line 187
DownBumpTx(s) ==
    /\ dPc[s] = "bump_tx"
    /\ counters' = bump(counters, s, TOPIC_COSMOS_TELEMETRY, "tx", Len(dRaw[s].bytes))
    /\ dPc' = [dPc EXCEPT ![s] = "log_down"]
    /\ UNCHANGED <<dMsg, dRaw, dRecv, dPre, bPubA, bLog>>
    /\ UNCHANGED notDownlink

\* lines 193-201: the inbound payload, logged on SatOS/downlink; `if raw:` is
\* false for None and for an empty byte string
LogDown(s) ==
    /\ dPc[s] = "log_down"
    /\ bLog' = [bLog EXCEPT !["SatOS/downlink"] =
                   Append(@, LogRow(s, "BtoA", dMsg[s].len, dMsg[s], topic_downlink(s)))]
    /\ dPc' = [dPc EXCEPT ![s] = IF dRaw[s].ok /\ dRaw[s].bytes # <<>>
                                 THEN "log_tlm" ELSE "idle"]
    /\ UNCHANGED <<dMsg, dRaw, dRecv, dPre, bPubA, counters>>
    /\ UNCHANGED notDownlink

\* lines 204-213: the decrypted bytes, logged on cosmos/telemetry
LogTlm(s) ==
    /\ dPc[s] = "log_tlm"
    /\ bLog' = [bLog EXCEPT ![TOPIC_COSMOS_TELEMETRY] =
                   Append(@, LogRow(s, "BtoA", Len(dRaw[s].bytes), dRaw[s].bytes,
                                    TOPIC_COSMOS_TELEMETRY))]
    /\ dPc' = [dPc EXCEPT ![s] = "idle"]
    /\ UNCHANGED <<dMsg, dRaw, dRecv, dPre, bPubA, counters>>
    /\ UNCHANGED notDownlink

DownNext ==
    \E s \in Stations :
        \/ \E m \in DownMessages : RecvB(s, m)
        \/ DownBumpRx(s)
        \/ TryPublishA(s)
        \/ DownBumpTx(s)
        \/ LogDown(s)
        \/ LogTlm(s)

-----------------------------------------------------------------------------
(* Broker deliveries: queues, prefetch windows, acks and requeues *)

Consumers == {"health_consumer", "dbworker", "alert_builder"}

DecodedQueues == {"q.decoded.db_persistence", "q.decoded.alerts"}

\* setup_queues_for_packets: one queue per packet name, bound by that name
PktQueue(p) == "pkt." \o p

QueueNames == {PktQueue(p) : p \in Packets} \cup DecodedQueues

\* the queues each consumer passes to basic_consume
QueuesOf(c) ==
    IF c = "health_consumer" THEN {PktQueue(p) : p \in Packets}
    ELSE IF c = "dbworker" THEN {"q.decoded.db_persistence"}
    ELSE {"q.decoded.alerts"}

\* The prefetch window of each consumer's channel; 0 is the protocol default,
\* no limit.  builder.py calls basic_qos(prefetch_count=1); health_consumer.py
\* and dbworker.py never call basic_qos.
prefetch_count(c) == IF c = "alert_builder" THEN 1 ELSE 0

\* the raw messages followed at this level: one the Health Consumer raises on,
\* one it decodes into an envelope, one whose envelope the Alert Builder raises on
QueuedMessages ==
    { RawMsg(PktUnknown, TRUE, "ok", FALSE, <<>>),
      RawMsg(PktEps, TRUE, "ok", FALSE, <<RowEps(Num(9))>>),
      RawMsg(PktEps, TRUE, "ok", FALSE, <<RowEps(Null)>>) }

\* the ids of the deliveries in un that came from queue q, oldest first
IdsFrom(un, q) ==
    LET ofq == SelectSeq(un, LAMBDA d : d.queue = q)
    IN  [i \in 1..Len(ofq) |-> ofq[i].id]

\* same, put back behind the ready messages
Requeue_atTail(ready, un) == [q \in DOMAIN ready |-> ready[q] \o IdsFrom(un, q)]

\* The connection of a consumer closes: the broker puts every delivery the
\* consumer had not acked back at its original place, ahead of the ready
\* messages of its queue.
Requeue(ready, un) == [q \in DOMAIN ready |-> IdsFrom(un, q) \o ready[q]]

\* basic_publish on telemetry.decoded: the exchange copies the envelope to every
\* queue that is bound to it at that moment
Route(ready, declared, id) ==
    [q \in DOMAIN ready |->
        IF q \in DecodedQueues /\ declared[q] THEN Append(ready[q], id) ELSE ready[q]]

\* What one run of consumer c's callback on message id does: ack, raise, and
\* (Health Consumer) the envelopes published.  The DB Sink acks every envelope
\* while its database connection works.
Handling(c, id) ==
    LET hc == on_message(qLog[id], id)
    IN  IF c = "health_consumer" THEN [ack |-> hc.ack, raised |-> hc.raised, pub |-> hc.pub]
        ELSE IF c = "dbworker" THEN [ack |-> TRUE, raised |-> FALSE, pub |-> <<>>]
        ELSE LET ab == callback(hc.pub[1], id)
             IN  [ack |-> ab.ack, raised |-> ab.raised, pub |-> <<>>]

QueueInit ==
    /\ qLog = <<>>
    /\ qReady = [q \in QueueNames |-> <<>>]
    /\ qDeclared = [q \in QueueNames |-> q \notin DecodedQueues]
    /\ qUnacked = [c \in Consumers |-> <<>>]
    /\ qUp = [c \in Consumers |-> FALSE]
    /\ qHandled = [c \in Consumers |-> [i \in 1..MaxQueued |-> 0]]
    /\ qDecoded = <<>>

\* ws_ingestor.handle_packet -> publish_json: routing key = __packet
QPublish(m) ==
    /\ Len(qLog) < MaxQueued
    /\ qLog' = Append(qLog, m)
    /\ qReady' = [qReady EXCEPT ![PktQueue(m.packet)] = Append(@, Len(qLog) + 1)]
    /\ UNCHANGED <<qDeclared, qUnacked, qUp, qHandled, qDecoded>>
    /\ UNCHANGED notQueue

\* A consumer connects and calls basic_consume.  The DB Sink and the Alert
\* Builder first declare their queue and bind it to telemetry.decoded; the
\* Health Consumer declares the exchange only.
QStart(c) ==
    /\ ~qUp[c]
    /\ qUp' = [qUp EXCEPT ![c] = TRUE]
    /\ qDeclared' = [q \in QueueNames |-> qDeclared[q] \/ (q \in DecodedQueues /\ q \in QueuesOf(c))]
    /\ UNCHANGED <<qLog, qReady, qUnacked, qHandled, qDecoded>>
    /\ UNCHANGED notQueue

\* The broker pushes the head of queue q to its consumer while the consumer's
\* prefetch window has room.
QDeliver(c, q) ==
    /\ qUp[c]
    /\ q \in QueuesOf(c)
    /\ qDeclared[q]
    /\ qReady[q] # <<>>
    /\ prefetch_count(c) = 0 \/ Len(qUnacked[c]) < prefetch_count(c)
    /\ qUnacked' = [qUnacked EXCEPT ![c] = Append(@, [queue |-> q, id |-> Head(qReady[q])])]
    /\ qReady' = [qReady EXCEPT ![q] = Tail(@)]
    /\ UNCHANGED <<qLog, qDeclared, qUp, qHandled, qDecoded>>
    /\ UNCHANGED notQueue

\* The consumer's callback runs on its oldest delivery.  An ack removes it; an
\* exception leaves start_consuming, the connection is closed and every unacked
\* delivery of the consumer is requeued.
QHandle(c) ==
    /\ qUp[c]
    /\ qUnacked[c] # <<>>
    /\ LET id == Head(qUnacked[c]).id
           r == Handling(c, id)
           published == IF r.pub # <<>> THEN Route(qReady, qDeclared, id) ELSE qReady
       IN  /\ qHandled[c][id] < MaxDeliver
           /\ qHandled' = [qHandled EXCEPT ![c][id] = @ + 1]
           /\ qDecoded' = IF r.pub # <<>> THEN Append(qDecoded, id) ELSE qDecoded
           /\ qUp' = [qUp EXCEPT ![c] = ~r.raised]
           /\ qUnacked' = [qUnacked EXCEPT ![c] = IF r.raised THEN <<>>
                                                   ELSE IF r.ack THEN Tail(@) ELSE @]
           /\ qReady' = IF r.raised THEN Requeue(published, qUnacked[c]) ELSE published
    /\ UNCHANGED <<qLog, qDeclared>>
    /\ UNCHANGED notQueue

\* The consumer process crashes or stalls until the broker drops its connection.
QCrash(c) ==
    /\ qUp[c]
    /\ qUp' = [qUp EXCEPT ![c] = FALSE]
    /\ qUnacked' = [qUnacked EXCEPT ![c] = <<>>]
    /\ qReady' = Requeue(qReady, qUnacked[c])
    /\ UNCHANGED <<qLog, qDeclared, qHandled, qDecoded>>
    /\ UNCHANGED notQueue

QueueNext ==
    \/ \E m \in QueuedMessages : QPublish(m)
    \/ \E c \in Consumers :
        \/ QStart(c)
        \/ \E q \in QueueNames : QDeliver(c, q)
        \/ QHandle(c)
        \/ QCrash(c)

-----------------------------------------------------------------------------
(* Ingestor: OpenC3Streamer._stream_once, handle_packet, RabbitMQPublisher *)

\* An upstream record: a dict with a base64 buffer and, normally, a __packet field.
Record(fields, packet, buffer) == [fields |-> fields, packet |-> packet, buffer |-> buffer]

Records ==
    { Record({"__packet", "buffer"}, PktCss, "AAE="),
      Record({"__packet", "buffer"}, PktEps, "AAI="),
      Record({"buffer"}, "", "AAM=") }

\* pkt.get("__packet", "<no __packet field>")
routing_key(pkt) == IF "__packet" \in pkt.fields THEN pkt.packet ELSE "<no __packet field>"

\* _ensure_connection: keeps a connection that reports is_open; otherwise tries
\* to connect three times, 2 s apart, and returns without raising either way.
ensure_connection(conn, brokerUp) ==
    IF conn \in {"open", "stale"} THEN conn
    ELSE IF brokerUp THEN "open" ELSE "none"

\* publish_json: the message is handed to basic_publish once.  Without a channel
\* the message is dropped (lines 96-98); an exception of basic_publish, raised
\* when the connection turns out to be dead, is logged (lines 109-110).  Either
\* way the call returns normally and the message is gone.
publish_json(conn, brokerUp, rk, message) ==
    LET c == ensure_connection(conn, brokerUp)
    IN  IF c = "none" THEN [conn |-> "none", sent |-> <<>>]
        ELSE IF c = "stale" THEN [conn |-> "none", sent |-> <<>>]
        ELSE [conn |-> "open", sent |-> <<[routing_key |-> rk, body |-> message]>>]

IngestInit ==
    /\ iBrokerUp \in BOOLEAN
    /\ iConn = ensure_connection("none", iBrokerUp)
    /\ iRead = <<>>
    /\ iRaw = <<>>

\* The broker stops, or the network between ingestor and broker breaks; a
\* connection the publisher holds goes dead without the publisher noticing.
BrokerDown ==
    /\ iBrokerUp
    /\ iBrokerUp' = FALSE
    /\ iConn' = IF iConn = "open" THEN "stale" ELSE iConn
    /\ UNCHANGED <<iRead, iRaw>>
    /\ UNCHANGED notIngest

BrokerUp ==
    /\ ~iBrokerUp
    /\ iBrokerUp' = TRUE
    /\ UNCHANGED <<iConn, iRead, iRaw>>
    /\ UNCHANGED notIngest

\* _stream_once reads one record and calls on_packet = handle_packet, which
\* publishes it; the loop then goes on to the next record.
ReadRecord(pkt) ==
    /\ Len(iRead) < MaxRead
    /\ iRead' = Append(iRead, pkt)
    /\ LET r == publish_json(iConn, iBrokerUp, routing_key(pkt), pkt)
       IN  /\ iConn' = r.conn
           /\ iRaw' = iRaw \o r.sent
    /\ UNCHANGED iBrokerUp
    /\ UNCHANGED notIngest

IngestNext ==
    \/ BrokerDown
    \/ BrokerUp
    \/ \E pkt \in Records : ReadRecord(pkt)

-----------------------------------------------------------------------------
(* DB Sink: DBWorkerService and PostgresClient *)

\* An envelope as the DB Sink meets it: its rows fit the packet's table
\* ("rows"), or the INSERT is refused by the server ("sql_error", for example a
\* column the table does not have).
SinkEnvelopes == {"rows", "sql_error"}

\* A statement on self.conn succeeds only on a connection that is still open:
\* _connect is called from __init__ alone, so a lost connection stays lost.
db_statement(conn, up) == conn = "open" /\ up

\* Outcome of one run of DBWorkerService._on_message on an envelope with rows.
\* Lines 153-154 insert; an exception there is logged and recorded with
\* insert_decoder_failed inside the except clause (line 160), which raises out of
\* the callback, before basic_ack, when that statement fails too.
db_on_message(kind, conn, up) ==
    LET works == db_statement(conn, up)
    IN  IF works /\ kind = "rows"
        THEN [ack |-> TRUE, raised |-> FALSE, inserted |-> TRUE, failed |-> FALSE]
        ELSE IF works
        THEN [ack |-> TRUE, raised |-> FALSE, inserted |-> FALSE, failed |-> TRUE]
        ELSE [ack |-> FALSE, raised |-> TRUE, inserted |-> FALSE, failed |-> FALSE]

\* DBWorkerService.__init__ has connected to Postgres; the broker is not yet
\* connected.
SinkInit ==
    /\ pgUp = TRUE
    /\ pgConn = "open"
    /\ dbUp = FALSE
    /\ dbLog = <<>>
    /\ dbQueue = <<>>
    /\ dbInserted = {}
    /\ dbFailed = {}
    /\ dbAcked = {}

\* The Health Consumer publishes an envelope; the queue is durable and bound.
SinkPublish(kind) ==
    /\ Len(dbLog) < MaxEnv
    /\ dbLog' = Append(dbLog, kind)
    /\ dbQueue' = Append(dbQueue, Len(dbLog) + 1)
    /\ UNCHANGED <<pgUp, pgConn, dbUp, dbInserted, dbFailed, dbAcked>>
    /\ UNCHANGED notSink

\* The database server stops or the network to it breaks: the session of
\* self.db.conn is gone.
PgDown ==
    /\ pgUp
    /\ pgUp' = FALSE
    /\ pgConn' = "lost"
    /\ UNCHANGED <<dbUp, dbLog, dbQueue, dbInserted, dbFailed, dbAcked>>
    /\ UNCHANGED notSink

\* The database is reachable again.
PgBack ==
    /\ ~pgUp
    /\ pgUp' = TRUE
    /\ UNCHANGED <<pgConn, dbUp, dbLog, dbQueue, dbInserted, dbFailed, dbAcked>>
    /\ UNCHANGED notSink

\* run_forever -> _consume_once: connect to the broker and consume; self.db is
\* the client made in __init__.
SinkConnect ==
    /\ ~dbUp
    /\ dbUp' = TRUE
    /\ UNCHANGED <<pgUp, pgConn, dbLog, dbQueue, dbInserted, dbFailed, dbAcked>>
    /\ UNCHANGED notSink

\* The broker delivers the head of the queue and _on_message runs on it.  An
\* exception leaves start_consuming; _consume_once closes the broker connection,
\* the envelope is requeued at the head, run_forever sleeps 5 s and loops.
SinkDeliver ==
    /\ dbUp
    /\ dbQueue # <<>>
    /\ LET id == Head(dbQueue)
           r == db_on_message(dbLog[id], pgConn, pgUp)
       IN  /\ dbInserted' = IF r.inserted THEN dbInserted \cup {id} ELSE dbInserted
           /\ dbFailed' = IF r.failed THEN dbFailed \cup {id} ELSE dbFailed
           /\ dbAcked' = IF r.ack THEN dbAcked \cup {id} ELSE dbAcked
           /\ dbQueue' = IF r.ack THEN Tail(dbQueue) ELSE dbQueue
           /\ dbUp' = ~r.raised
    /\ UNCHANGED <<pgUp, pgConn, dbLog>>
    /\ UNCHANGED notSink

SinkNext ==
    \/ \E kind \in SinkEnvelopes : SinkPublish(kind)
    \/ PgDown
    \/ PgBack
    \/ SinkConnect
    \/ SinkDeliver

-----------------------------------------------------------------------------
(* Alert evaluation as functions: evaluate_metric and evaluate_tm on inputs *)

\* thresholds a packet rule sets for itself
LocalThresholds == [yellow_percent |-> 70, amber_percent |-> 85, red_percent |-> 95]

\* the same rules, with the HEALTH_EPS rule carrying its own thresholds
config_index_local ==
    [q \in {3, 7} |->
        IF q = 7 THEN config_index[7]
        ELSE [packet_name |-> "HEALTH_EPS",
              thresholds |-> LocalThresholds,
              metrics |-> <<[metric |-> "Battery_Total_Voltage_V",
                             min |-> Num(-10), max |-> Num(10)]>>]]

\* arguments of evaluate_metric: limits on both sides, on one side, equal, and
\* values below, at, between and above them
MetricLimits ==
    { <<Num(0), Num(30000)>>, <<Num(-10), Num(10)>>, <<Num(5), Num(5)>>,
      <<Null, Num(10)>>, <<Num(0), Null>> }

MetricValues ==
    { Num(v) : v \in {-11, -1, 0, 3, 5, 7, 9, 10, 11, 1499, 3000, 3001, 4500,
                      6000, 6001, 24000, 26999, 27000, 28501, 29999, 30000, 30001} }

MetricArgs ==
    { [value |-> v, min_v |-> l[1], max_v |-> l[2], thresholds |-> t] :
        v \in MetricValues, l \in MetricLimits, t \in {Thresholds, LocalThresholds} }

\* arguments of evaluate_tm: an envelope of one or two rows, a configuration
\* with or without thresholds of the packet's own, the global thresholds
TmRows ==
    { <<RowEps(Num(v))>> : v \in {-11, 0, 5, 8, 9, 10} }
    \cup { <<RowCss(Num(v)), RowEps(Num(w))>> : v \in {5, 9}, w \in {5, 9} }

TmArgs ==
    { [tm |-> Envelope(PktEps, rows, 1), config_index |-> c, thresholds |-> Thresholds] :
        rows \in TmRows, c \in {config_index, config_index_local} }

EvalInit ==
    /\ eArgs \in MetricArgs
    /\ eDone = FALSE
    /\ eResult = NoAlert
    /\ tArgs \in TmArgs
    /\ tDone = FALSE
    /\ tAlerts = <<>>

EvaluateMetric ==
    /\ ~eDone
    /\ eDone' = TRUE
    /\ eResult' = evaluate_metric(eArgs.value, eArgs.min_v, eArgs.max_v, eArgs.thresholds)
    /\ UNCHANGED <<eArgs, tArgs, tDone, tAlerts>>
    /\ UNCHANGED notEval

EvaluateTm ==
    /\ ~tDone
    /\ tDone' = TRUE
    /\ tAlerts' = evaluate_tm(tArgs.tm, tArgs.config_index, tArgs.thresholds, 1, 1).alerts
    /\ UNCHANGED <<eArgs, eDone, eResult, tArgs>>
    /\ UNCHANGED notEval

EvalNext == EvaluateMetric \/ EvaluateTm

-----------------------------------------------------------------------------
(* Alert life cycle: Alert Worker, Notifier and the status-update API *)

\* schemas.AlertStatus
AlertStatus == {"alert_identified", "acknowledged", "resolved", "dismissed"}

\* what a client can put in the body of PATCH /alerts/{id}/status
RequestedStatuses == AlertStatus \cup {"alert_notified"}

\* the table the Alert Worker's and the API's Alert class map to
WorkerTable == "alerts"

\* the table the Notifier's Alert class maps to
NotifierTable == "alert"

\* update_db_status: UPDATE <NotifierTable> SET status = new_status WHERE id =
\* db_id.  A missing table raises, which the except clause logs; a missing row
\* updates nothing.
update_db_status(tables, db_id, new_status) ==
    IF NotifierTable \in DOMAIN tables /\ db_id \in DOMAIN tables[NotifierTable]
    THEN [tables EXCEPT ![NotifierTable][db_id].status = new_status]
    ELSE tables

\* update_alert_status: 400 for a status outside AlertStatus, 404 for an unknown
\* id, otherwise the row's status is overwritten.
update_alert_status(tables, alert_id, status) ==
    IF status \notin AlertStatus THEN tables
    ELSE IF alert_id \notin DOMAIN tables[WorkerTable] THEN tables
    ELSE [tables EXCEPT ![WorkerTable][alert_id].status = status]

\* init_db of the Alert Worker has created its table; the Notifier's init_db
\* creates none.
AlertInit ==
    /\ aTables = [t \in {WorkerTable} |-> <<>>]
    /\ aDetected = 0
    /\ aTaken = 0
    /\ aNotify = <<>>
    /\ aSent = {}

\* The Alert Builder publishes an alert, status alert_identified, to alert.detected.
AlertDetected ==
    /\ aDetected < MaxAlerts
    /\ aDetected' = aDetected + 1
    /\ UNCHANGED <<aTables, aTaken, aNotify, aSent>>
    /\ UNCHANGED notAlert

\* Alert Worker callback: insert the row, put its id in the message as db_id,
\* forward to alert.notify, ack.  When the insert fails the message is
\* forwarded without db_id.
WorkerCallback(db_ok) ==
    /\ aTaken < aDetected
    /\ aTaken' = aTaken + 1
    /\ LET db_id == Len(aTables[WorkerTable]) + 1
       IN  IF db_ok
           THEN /\ aTables' = [aTables EXCEPT ![WorkerTable] =
                                  Append(@, [status |-> "alert_identified"])]
                /\ aNotify' = Append(aNotify, [db_id |-> db_id])
           ELSE /\ aTables' = aTables
                /\ aNotify' = Append(aNotify, [db_id |-> 0])
    /\ UNCHANGED <<aDetected, aSent>>
    /\ UNCHANGED notAlert

\* Notifier callback: send_email (mock mode logs), and on success, when the
\* message carries a db_id, update_db_status(..., "alert_notified"); ack.
NotifierCallback(success) ==
    /\ aNotify # <<>>
    /\ LET alert == Head(aNotify)
       IN  IF success /\ alert.db_id # 0
           THEN /\ aTables' = update_db_status(aTables, alert.db_id, "alert_notified")
                /\ aSent' = aSent \cup {alert.db_id}
           ELSE UNCHANGED <<aTables, aSent>>
    /\ aNotify' = Tail(aNotify)
    /\ UNCHANGED <<aDetected, aTaken>>
    /\ UNCHANGED notAlert

\* PATCH /alerts/{alert_id}/status
ApiUpdateStatus(alert_id, status) ==
    /\ aTables' = update_alert_status(aTables, alert_id, status)
    /\ UNCHANGED <<aDetected, aTaken, aNotify, aSent>>
    /\ UNCHANGED notAlert

AlertNext ==
    \/ AlertDetected
    \/ \E db_ok \in BOOLEAN : WorkerCallback(db_ok)
    \/ \E success \in BOOLEAN : NotifierCallback(success)
    \/ \E alert_id \in 1..MaxAlerts, status \in RequestedStatuses :
          ApiUpdateStatus(alert_id, status)

-----------------------------------------------------------------------------
(* Schema-driven decoders: ByteReader and _decode_from_spec *)

Schemas == {"HEALTH_ADCS_CSS_VECTOR", "HEALTH_EPS_SES_TEMP", "HEALTH_ADCS_RW_CURRENT"}

\* the decoders whose segment has a var_array
VariableLength == {"HEALTH_ADCS_RW_CURRENT"}

\* SPEC["common_header"]: skip_bytes, then Submodule_ID U8, Queue_ID U8,
\* Number_of_Instances UINT16_LE
skip_bytes == 26

HeaderEnd == skip_bytes + 4

\* SPEC["segment_len_bytes"], and SPEC["segment_min_len_bytes"] of a var_array schema
segment_len_bytes(s) ==
    CASE s = "HEALTH_ADCS_CSS_VECTOR" -> 11
      [] s = "HEALTH_EPS_SES_TEMP" -> 12
      [] s = "HEALTH_ADCS_RW_CURRENT" -> 6

\* ByteReader.remaining
remaining(data, i) == Len(data) - i

\* ByteReader.u8 / u16le at position i (positions count from 0)
u8(data, i) == data[i + 1]

u16le(data, i) == data[i + 1] + 256 * data[i + 2]

\* struct "<h": the 16 bits as a signed number
i16le(data, i) == IF u16le(data, i) >= 32768 THEN u16le(data, i) - 65536 ELSE u16le(data, i)

\* the bytes of a field that is wider than the integers of the model
bytesAt(data, i, n) == [k \in 1..n |-> data[i + k]]

\* _parse_common_header: raises when the payload ends inside the header
HeaderFails(data) == Len(data) < HeaderEnd

parse_common_header(data) ==
    [Submodule_ID |-> u8(data, skip_bytes), Queue_ID |-> u8(data, skip_bytes + 1),
     Number_of_Instances |-> u16le(data, skip_bytes + 2)]

\* datetime.fromtimestamp(v, tz=utc) raises beyond 9999-12-31T23:59:59Z =
\* 253402300799 s = 0x3A_FFF4_417F; b holds the 8 little-endian bytes of v
EpochOutOfRange(b) ==
    LET lo == b[1] + 256 * b[2] + 65536 * b[3]
        mid == b[4] + 256 * b[5]
    IN  \/ b[6] > 0 \/ b[7] > 0 \/ b[8] > 0
        \/ mid > 15103
        \/ mid = 15103 /\ lo > 16007551

\* _apply_transform "EPOCH64_TO_UTC_DATETIME": None for the all-ones value, the
\* instant otherwise (not defined when out of range: the call raises)
Epoch64(b) == IF \A k \in 1..8 : b[k] = 255 THEN Null ELSE [kind |-> "datetime", v |-> b]

\* _apply_transform "TEMP_U8_255_INVALID_AS_INT8"
TempU8(v) == IF v = 255 THEN Null ELSE Num(IF v >= 128 THEN v - 256 ELSE v)

\* one pass of the try block on the instance that starts at position s: ok says
\* whether it ran to segments.append(row), row is what it appended, end is
\* reader.i after the last read
ReadSegment(s, data, st) ==
    CASE s = "HEALTH_ADCS_CSS_VECTOR" ->
           [ok |-> TRUE, end |-> st + 11,
            row |-> [Operation_Status |-> Num(u8(data, st)),
                     Epoch |-> [kind |-> "datetime", v |-> bytesAt(data, st + 1, 4)],
                     Values |-> <<i16le(data, st + 5), i16le(data, st + 7),
                                  i16le(data, st + 9)>>]]
      [] s = "HEALTH_EPS_SES_TEMP" ->
           LET b == bytesAt(data, st, 8)
               raises == ~(\A k \in 1..8 : b[k] = 255) /\ EpochOutOfRange(b)
           IN  [ok |-> ~raises, end |-> IF raises THEN st + 8 ELSE st + 12,
                row |-> [Operation_Status |-> Null,
                         Epoch |-> Epoch64(b),
                         Values |-> <<Num(u8(data, st + 8)), TempU8(u8(data, st + 9)),
                                      Num(u8(data, st + 10)), TempU8(u8(data, st + 11))>>]]
      [] s = "HEALTH_ADCS_RW_CURRENT" ->
           LET n == u8(data, st + 5)
               raises == remaining(data, st + 6) < 2 * n
           IN  [ok |-> ~raises, end |-> IF raises THEN st + 6 ELSE st + 6 + 2 * n,
                row |-> [Operation_Status |-> Num(u8(data, st)),
                         Epoch |-> [kind |-> "datetime", v |-> bytesAt(data, st + 1, 4)],
                         Values |-> IF raises THEN <<>>
                                    ELSE [k \in 1..n |-> u16le(data, st + 6 + 2 * (k - 1))]]]

\* the try/except around one instance: the row is appended only when the try
\* block ran to its end
RowsAfter_keepFailed(rows, res) == Append(rows, res.row)

RowsAfter(rows, res) == IF res.ok THEN Append(rows, res.row) ELSE rows

\* the payloads handed to the decoders: the skipped bytes, the header, then
\* whole instances from a small set, with some bytes cut off the end
Zeros(n) == [k \in 1..n |-> 0]

Ones(n) == [k \in 1..n |-> 255]

InstancesOf(s) ==
    CASE s = "HEALTH_ADCS_CSS_VECTOR" ->
           { <<0, 0, 223, 194, 105, 0, 0, 0, 0, 240, 63>>, Ones(11) }
      [] s = "HEALTH_EPS_SES_TEMP" ->
           { <<1>> \o Zeros(7) \o <<20, 20, 21, 255>>,
             Ones(8) \o <<20, 255, 21, 250>>,
             Ones(7) \o <<127, 20, 20, 21, 21>> }
      [] s = "HEALTH_ADCS_RW_CURRENT" ->
           { <<0, 1, 0, 0, 0, 1, 5, 0>>,
             <<0, 1, 0, 0, 0, 2, 5, 0, 6, 0>>,
             <<0, 1, 0, 0, 0, 9, 5, 0>> }

RECURSIVE Concat(_)
Concat(ss) == IF ss = <<>> THEN <<>> ELSE Head(ss) \o Concat(Tail(ss))

Cuts == {0, 1, 7}

Payloads(s) ==
    { LET whole == Zeros(skip_bytes) \o <<1, 7, n, 0>> \o Concat(body)
      IN  SubSeq(whole, 1, Len(whole) - cut) :
        n \in 0..MaxInstances,
        body \in UNION { [1..k -> InstancesOf(s)] : k \in 0..MaxSegments },
        cut \in Cuts }

DecodeIdle ==
    /\ xSchema = "HEALTH_ADCS_CSS_VECTOR" /\ xData = <<>> /\ xPc = "done"
    /\ xI = 0 /\ xCount = 0 /\ xIdx = 0 /\ xRows = <<>> /\ xStarts = <<>>

DecodeInit ==
    /\ xSchema \in Schemas
    /\ xData \in Payloads(xSchema)
    /\ xPc = "start"
    /\ xI = 0 /\ xCount = 0 /\ xIdx = 0 /\ xRows = <<>> /\ xStarts = <<>>

\* _decode_from_spec up to the loop: header, Number_of_Instances, count <= 0
DecodeHeader ==
    /\ xPc = "start"
    /\ IF HeaderFails(xData)
       THEN xPc' = "done" /\ UNCHANGED <<xI, xCount>>
       ELSE /\ xI' = HeaderEnd
            /\ xCount' = parse_common_header(xData).Number_of_Instances
            /\ xPc' = IF xCount' <= 0 THEN "done" ELSE "loop"
    /\ UNCHANGED <<xSchema, xData, xIdx, xRows, xStarts>>
    /\ UNCHANGED notDecode

\* one iteration of the loop of a segment_len_bytes schema
DecodeSegment ==
    /\ xPc = "loop" /\ xIdx < xCount /\ xSchema \notin VariableLength
    /\ IF remaining(xData, xI) < segment_len_bytes(xSchema)
       THEN xPc' = "done" /\ UNCHANGED <<xI, xIdx, xRows, xStarts>>
       ELSE LET res == ReadSegment(xSchema, xData, xI)
            IN  /\ xStarts' = Append(xStarts, xI)
                /\ xRows' = RowsAfter(xRows, res)
                /\ xI' = IF res.ok THEN res.end ELSE xI + segment_len_bytes(xSchema)
                /\ xIdx' = xIdx + 1
                /\ xPc' = "loop"
    /\ UNCHANGED <<xSchema, xData, xCount>>
    /\ UNCHANGED notDecode

\* one iteration of the loop of a var_array schema
DecodeVarSegment ==
    /\ xPc = "loop" /\ xIdx < xCount /\ xSchema \in VariableLength
    /\ IF remaining(xData, xI) < segment_len_bytes(xSchema)
       THEN xPc' = "done" /\ UNCHANGED <<xI, xIdx, xRows, xStarts>>
       ELSE LET res == ReadSegment(xSchema, xData, xI)
            IN  /\ xStarts' = Append(xStarts, xI)
                /\ xRows' = RowsAfter(xRows, res)
                /\ xI' = IF res.ok THEN res.end ELSE xI
                /\ xIdx' = IF res.ok THEN xIdx + 1 ELSE xIdx
                /\ xPc' = IF res.ok THEN "loop" ELSE "done"
    /\ UNCHANGED <<xSchema, xData, xCount>>
    /\ UNCHANGED notDecode

\* range(count) is exhausted: return segments
DecodeReturn ==
    /\ xPc = "loop" /\ xIdx >= xCount
    /\ xPc' = "done"
    /\ UNCHANGED <<xSchema, xData, xI, xCount, xIdx, xRows, xStarts>>
    /\ UNCHANGED notDecode

DecodeNext == DecodeHeader \/ DecodeSegment \/ DecodeVarSegment \/ DecodeReturn

-----------------------------------------------------------------------------
(* Packet tables: PostgresClient.ensure_table_for_packet, insert_rows and the *)
(* persistence branch of DBWorkerService._on_message                        *)

Text(s) == [kind |-> "str", v |-> s]

\* _infer_pg_type on the values the rows carry: int -> BIGINT, everything else
\* (str, None) -> TEXT
infer_pg_type(value) == IF value.kind = "num" THEN "BIGINT" ELSE "TEXT"

\* what Postgres stores when value is assigned to a column of type typ: NULL
\* stays NULL, a number assigned to TEXT becomes its decimal text, and text that
\* is not a number is refused by a BIGINT column
Assignable(value, typ) == typ = "TEXT" \/ value.kind \in {"num", "null"}

Stored(value, typ) ==
    IF typ = "TEXT" /\ value.kind = "num" THEN Text(ToString(value.v)) ELSE value

\* packet names as their "__"-separated parts; _on_message drops the three
\* leading parts of an EMULATOR name
PacketNames == { <<"HEALTH_EPS">>, <<"RAW", "TLM", "EMULATOR", "HEALTH_EPS">>, <<"HEALTH_OBC">> }

target_table(packet_name) ==
    IF Len(packet_name) >= 4 /\ packet_name[3] = "EMULATOR"
    THEN SubSeq(packet_name, 4, Len(packet_name))
    ELSE packet_name

\* rows of decoded envelopes: a and b decoded; b missing; an extra column c;
\* text where a number was decoded before; None where a number was decoded
TableRows ==
    { [a |-> Num(1), b |-> Num(2)],
      [a |-> Num(1)],
      [a |-> Num(1), c |-> Num(3)],
      [a |-> Text("x"), b |-> Num(2)],
      [a |-> Null, b |-> Num(2)] }

\* envelopes of one row, and of two rows whose second lacks b or carries text
TableData ==
    { <<r>> : r \in TableRows } \cup
    { <<[a |-> Num(1), b |-> Num(2)], r>> : r \in { [a |-> Num(1)], [a |-> Text("x"), b |-> Num(2)] } }

TableEnvelopes == { [packet_name |-> p, data |-> d] : p \in PacketNames, d \in TableData }

\* row.get(k)
Get(row, k) == IF k \in DOMAIN row THEN row[k] ELSE Null

\* ensure_table_for_packet: CREATE TABLE IF NOT EXISTS with one column per key
\* of the sample row, then remember the table
ensure_table_recreating(tables, packet_table, sample_row) ==
    [t \in DOMAIN tables \cup {packet_table} |->
        IF t = packet_table
        THEN [cols |-> [k \in DOMAIN sample_row |-> infer_pg_type(sample_row[k])],
              rows |-> <<>>]
        ELSE tables[t]]

\* a table that grows a column for every new key of the sample row
ensure_table_evolving(tables, packet_table, sample_row) ==
    [t \in DOMAIN tables \cup {packet_table} |->
        IF t # packet_table THEN tables[t]
        ELSE LET old == IF t \in DOMAIN tables THEN tables[t]
                        ELSE [cols |-> << >>, rows |-> <<>>]
             IN  [cols |-> [k \in DOMAIN old.cols \cup DOMAIN sample_row |->
                              IF k \in DOMAIN old.cols THEN old.cols[k]
                              ELSE infer_pg_type(sample_row[k])],
                  rows |-> [i \in 1..Len(old.rows) |->
                              [k \in DOMAIN old.cols \cup DOMAIN sample_row |->
                                 IF k \in DOMAIN old.cols THEN old.rows[i][k] ELSE Null]]]]

ensure_table_for_packet(tables, packet_table, sample_row) ==
    IF packet_table \in DOMAIN tables THEN tables
    ELSE [t \in DOMAIN tables \cup {packet_table} |->
            IF t = packet_table
            THEN [cols |-> [k \in DOMAIN sample_row |-> infer_pg_type(sample_row[k])],
                  rows |-> <<>>]
            ELSE tables[t]]

\* insert_rows builds one INSERT over the keys of rows[0]; Postgres refuses it
\* when a key is not a column or a value is not assignable to its column
InsertFails(table, rows) ==
    LET keys == DOMAIN rows[1]
    IN  \/ \E k \in keys : k \notin DOMAIN table.cols
        \/ \E i \in 1..Len(rows), k \in keys : ~Assignable(Get(rows[i], k), table.cols[k])

\* the rows the INSERT adds: the listed keys hold the stored values, every
\* other column its default NULL
Inserted(table, rows) ==
    LET keys == DOMAIN rows[1]
    IN  [i \in 1..Len(rows) |->
            [c \in DOMAIN table.cols |->
                IF c \in keys THEN Stored(Get(rows[i], c), table.cols[c]) ELSE Null]]

insert_rows(tables, packet_table, rows) ==
    [tables EXCEPT ![packet_table].rows = @ \o Inserted(tables[packet_table], rows)]

StoreInit == sTables = << >> /\ sKnown = {} /\ sSeen = <<>> /\ sFailed = <<>>

\* _on_message from the target table on: ensure the table, insert the rows; an
\* exception is recorded in DECODER_FAILED; the message is acked either way
StoreEnvelope(env) ==
    /\ Len(sSeen) < MaxStored
    /\ LET t == target_table(env.packet_name)
           ensured == ensure_table_for_packet(sTables, t, env.data[1])
       IN  /\ sKnown' = sKnown \cup {t}
           /\ sSeen' = Append(sSeen, env)
           /\ IF InsertFails(ensured[t], env.data)
              THEN /\ sTables' = ensured
                   /\ sFailed' = Append(sFailed, Len(sSeen) + 1)
              ELSE /\ sTables' = insert_rows(ensured, t, env.data)
                   /\ UNCHANGED sFailed
    /\ UNCHANGED notStore

\* the DB Sink process restarts: a new PostgresClient with no known tables
StoreRestart ==
    /\ sKnown # {}
    /\ sKnown' = {}
    /\ UNCHANGED <<sTables, sSeen, sFailed>>
    /\ UNCHANGED notStore

StoreNext == (\E env \in TableEnvelopes : StoreEnvelope(env)) \/ StoreRestart

-----------------------------------------------------------------------------
(* Bridge API: the /connect and /disconnect endpoints, BridgeManager and the *)
(* thread of a BridgeRunner                                                 *)

\* the stations of the stations file, and the station ids requests may name
STATIONS == {"gs1"}

RequestStations == {"gs1", "gs9"}

CONNECTION_ROLES == {"SUPER_ADMIN", "ADMIN", "MISSION_OPERATOR"}

\* a header that is absent (None) or empty reads as ""
ApiRequests ==
    [op : {"connect", "disconnect"},
     user_id : {"", "u7"},
     roles : {""} \cup CONNECTION_ROLES \cup {"USER"},
     station : RequestStations]

NoRequest == [op |-> "none", user_id |-> "", roles |-> "", station |-> ""]

ReqThreads == {1, 2}

\* gateway_auth_only, a dependency of every route of the app
gateway_auth_only(req) == IF req.user_id = "" THEN 401 ELSE 200

\* verify_role(CONNECTION_ROLES), a dependency of /connect and /disconnect
verify_role_presentOnly(req) == IF req.roles = "" THEN 401 ELSE 200

verify_role(req) ==
    IF req.roles = "" THEN 401
    ELSE IF req.roles \notin CONNECTION_ROLES THEN 403
    ELSE 200

station_or_404(station_id) == IF station_id \notin STATIONS THEN 404 ELSE 200

\* the status code of a request: the app's dependencies run first, then the
\* route's, then the endpoint body
StatusCode(req) ==
    IF gateway_auth_only(req) # 200 THEN gateway_auth_only(req)
    ELSE IF verify_role(req) # 200 THEN verify_role(req)
    ELSE station_or_404(req.station)

\* the station has a registered runner whose thread is alive (main.py:148)
RunnerAlive(runners, objs, station_id) ==
    /\ runners[station_id] # 0
    /\ objs[runners[station_id]].thread = "alive"

\* BridgeRunner.disconnect on the registered runner, if there is one
manager_disconnect(runners, objs, station_id) ==
    IF runners[station_id] = 0 THEN objs
    ELSE [objs EXCEPT ![runners[station_id]].stop = TRUE]

ManagerInit ==
    /\ mRunners = [s \in STATIONS |-> 0]
    /\ mObjs = <<>>
    /\ mReq = [t \in ReqThreads |-> [pc |-> "idle", station |-> "", br |-> 0]]
    /\ mLast = [req |-> NoRequest, code |-> 0]
    /\ mCount = 0

\* a request thread takes a request: rejected by a dependency or by
\* station_or_404, or /disconnect runs, or /connect enters BridgeManager.connect
ApiRequest(t, req) ==
    /\ mReq[t].pc = "idle" /\ mCount < MaxRequests
    /\ mCount' = mCount + 1
    /\ mLast' = [req |-> req, code |-> StatusCode(req)]
    /\ IF StatusCode(req) # 200
       THEN UNCHANGED <<mRunners, mObjs, mReq>>
       ELSE IF req.op = "disconnect"
       THEN /\ mObjs' = manager_disconnect(mRunners, mObjs, req.station)
            /\ UNCHANGED <<mRunners, mReq>>
       ELSE /\ mReq' = [mReq EXCEPT ![t] = [pc |-> "check", station |-> req.station, br |-> 0]]
            /\ UNCHANGED <<mRunners, mObjs>>
    /\ UNCHANGED notManager

\* BridgeManager.connect, the test of line 148: nothing to do when the
\* registered runner's thread is alive, and the endpoint returns ok
ConnectCheck(t) ==
    /\ mReq[t].pc = "check"
    /\ mReq' = [mReq EXCEPT ![t].pc =
                  IF RunnerAlive(mRunners, mObjs, mReq[t].station) THEN "idle" ELSE "register"]
    /\ UNCHANGED <<mRunners, mObjs, mLast, mCount>>
    /\ UNCHANGED notManager

\* lines 155-162: a new BridgeRunner is built and registered
ConnectRegister(t) ==
    /\ mReq[t].pc = "register"
    /\ mObjs' = Append(mObjs, [station |-> mReq[t].station, thread |-> "none", stop |-> FALSE])
    /\ mRunners' = [mRunners EXCEPT ![mReq[t].station] = Len(mObjs) + 1]
    /\ mReq' = [mReq EXCEPT ![t].pc = "start", ![t].br = Len(mObjs) + 1]
    /\ UNCHANGED <<mLast, mCount>>
    /\ UNCHANGED notManager

\* line 163, BridgeRunner.connect on the runner this request built: clear the
\* stop event and start the worker thread; the endpoint returns ok
ConnectStart(t) ==
    /\ mReq[t].pc = "start"
    /\ mObjs' = [mObjs EXCEPT ![mReq[t].br] =
                   IF @.thread = "alive" THEN @
                   ELSE [@ EXCEPT !.stop = FALSE, !.thread = "alive"]]
    /\ mReq' = [mReq EXCEPT ![t].pc = "idle"]
    /\ UNCHANGED <<mRunners, mLast, mCount>>
    /\ UNCHANGED notManager

\* BridgeRunner._worker leaves its loop once stop_event is set, and the thread ends
WorkerExit(n) ==
    /\ mObjs[n].thread = "alive" /\ mObjs[n].stop
    /\ mObjs' = [mObjs EXCEPT ![n].thread = "exited"]
    /\ UNCHANGED <<mRunners, mReq, mLast, mCount>>
    /\ UNCHANGED notManager

ManagerNext ==
    \/ \E t \in ReqThreads, req \in ApiRequests : ApiRequest(t, req)
    \/ \E t \in ReqThreads : ConnectCheck(t) \/ ConnectRegister(t) \/ ConnectStart(t)
    \/ \E n \in DOMAIN mObjs : WorkerExit(n)

-----------------------------------------------------------------------------
(* Stats under threads: bump from the MQTT callback threads, snapshot from   *)
(* request threads, one station and one logical topic                       *)

BumpThreads == {1, 2}

SnapThreads == {3}

StatsThreads == BumpThreads \cup SnapThreads

BumpTopics == {"cosmos/command", "cosmos/other"}

BumpSizes == {1, 3}

IdleThread == [pc |-> "idle", dir |-> "rx", size |-> 0, tmp |-> 0]

\* `with self._lock`: the lock is taken when no thread holds it
CanAcquire_unlocked(lock) == TRUE

CanAcquire(lock) == lock = 0

\* the counter a bump of direction dir touches at pc
BumpField(dir, pc) ==
    IF pc \in {"load_msgs", "store_msgs"}
    THEN (IF dir = "rx" THEN "rx_msgs" ELSE "tx_msgs")
    ELSE (IF dir = "rx" THEN "rx_bytes" ELSE "tx_bytes")

\* snapshot(station_id): dict(self.counters.get(...)) is a new dict holding the
\* values of that moment; kind tells a copy from the counters dict itself
snapshot(cnt) == [kind |-> "copy", val |-> cnt]

\* what a caller reads in a snapshot it holds
Deref(s) == IF s.kind = "copy" THEN s.val ELSE kCounters

StatsInit ==
    /\ kCounters = _zero
    /\ kLock = 0
    /\ kThr = [t \in StatsThreads |-> IdleThread]
    /\ kDone = _zero
    /\ kSnaps = <<>>
    /\ kCalls = 0

\* bump(station_id, topic, direction, byte_cnt) is called: an unexpected topic
\* returns at once, otherwise the thread goes for the lock
BumpCall(t, topic, dir, size) ==
    /\ kThr[t].pc = "idle" /\ kCalls < MaxCalls
    /\ kCalls' = kCalls + 1
    /\ kThr' = IF topic \notin LOGICAL_TOPICS THEN kThr
               ELSE [kThr EXCEPT ![t] = [pc |-> "acquire", dir |-> dir, size |-> size, tmp |-> 0]]
    /\ UNCHANGED <<kCounters, kLock, kDone, kSnaps>>
    /\ UNCHANGED notStats

\* snapshot(station_id) is called
SnapCall(t) ==
    /\ kThr[t].pc = "idle" /\ kCalls < MaxCalls
    /\ kCalls' = kCalls + 1
    /\ kThr' = [kThr EXCEPT ![t].pc = "acquire"]
    /\ UNCHANGED <<kCounters, kLock, kDone, kSnaps>>
    /\ UNCHANGED notStats

StatsAcquire(t) ==
    /\ kThr[t].pc = "acquire" /\ CanAcquire(kLock)
    /\ kLock' = t
    /\ kThr' = [kThr EXCEPT ![t].pc = IF t \in SnapThreads THEN "copy" ELSE "load_msgs"]
    /\ UNCHANGED <<kCounters, kDone, kSnaps, kCalls>>
    /\ UNCHANGED notStats

\* c[field] += n, first half: the value is read
BumpLoad(t) ==
    /\ kThr[t].pc \in {"load_msgs", "load_bytes"}
    /\ kThr' = [kThr EXCEPT ![t].tmp = kCounters[BumpField(kThr[t].dir, kThr[t].pc)],
                            ![t].pc = IF @ = "load_msgs" THEN "store_msgs" ELSE "store_bytes"]
    /\ UNCHANGED <<kCounters, kLock, kDone, kSnaps, kCalls>>
    /\ UNCHANGED notStats

\* c[field] += n, second half: the sum is stored
BumpStore(t) ==
    /\ kThr[t].pc \in {"store_msgs", "store_bytes"}
    /\ kCounters' = [kCounters EXCEPT ![BumpField(kThr[t].dir, kThr[t].pc)] =
                        kThr[t].tmp + (IF kThr[t].pc = "store_msgs" THEN 1 ELSE kThr[t].size)]
    /\ kThr' = [kThr EXCEPT ![t].pc = IF @ = "store_msgs" THEN "load_bytes" ELSE "release"]
    /\ UNCHANGED <<kLock, kDone, kSnaps, kCalls>>
    /\ UNCHANGED notStats

\* the copy made inside snapshot; seen and done record the counters and the
\* finished bumps of that moment
SnapCopy(t) ==
    /\ kThr[t].pc = "copy"
    /\ kSnaps' = Append(kSnaps, [snap |-> snapshot(kCounters), seen |-> kCounters, done |-> kDone])
    /\ kThr' = [kThr EXCEPT ![t].pc = "release"]
    /\ UNCHANGED <<kCounters, kLock, kDone, kCalls>>
    /\ UNCHANGED notStats

\* the end of the with block; a bump that ends is counted in kDone
StatsRelease(t) ==
    /\ kThr[t].pc = "release"
    /\ kLock' = IF kLock = t THEN 0 ELSE kLock
    /\ kDone' = IF t \in SnapThreads THEN kDone
                ELSE [kDone EXCEPT ![BumpField(kThr[t].dir, "load_msgs")] = @ + 1,
                                   ![BumpField(kThr[t].dir, "load_bytes")] = @ + kThr[t].size]
    /\ kThr' = [kThr EXCEPT ![t] = IdleThread]
    /\ UNCHANGED <<kCounters, kSnaps, kCalls>>
    /\ UNCHANGED notStats

StatsNext ==
    \/ \E t \in BumpThreads, topic \in BumpTopics, dir \in {"rx", "tx"}, size \in BumpSizes :
          BumpCall(t, topic, dir, size)
    \/ \E t \in SnapThreads : SnapCall(t)
    \/ \E t \in StatsThreads : StatsAcquire(t) \/ StatsRelease(t)
    \/ \E t \in BumpThreads : BumpLoad(t) \/ BumpStore(t)
    \/ \E t \in SnapThreads : SnapCopy(t)

-----------------------------------------------------------------------------
(* The status operation: live counters merged with the totals of the log    *)

StatusTopic == "cosmos/command"

\* _db_totals_for_station for cosmos/command: count and byte sum of the AtoB
\* rows of the station's command log go to rx_msgs and rx_bytes
RECURSIVE SumBytes(_)
SumBytes(rows) == IF rows = <<>> THEN 0 ELSE Head(rows) + SumBytes(Tail(rows))

db_totals_for_station(rows) ==
    [rx_msgs |-> Len(rows), rx_bytes |-> SumBytes(rows), tx_msgs |-> 0, tx_bytes |-> 0]

\* status(): the totals of the log when the live counters of the topic are all
\* zero, the live counters otherwise
merged(live, db_tot) ==
    IF live.rx_msgs = 0 /\ live.rx_bytes = 0 /\ live.tx_msgs = 0 /\ live.tx_bytes = 0
    THEN db_tot
    ELSE live

StatusInit ==
    /\ rLive = _zero /\ rRows = <<>>
    /\ rLast = _zero /\ rPrev = _zero /\ rCalls = 0

\* on_message_a for one command of n bytes: the live counter is bumped and the
\* command is logged
StatusTraffic(n) ==
    /\ Len(rRows) < MaxTraffic
    /\ rLive' = [rLive EXCEPT !.rx_msgs = @ + 1, !.rx_bytes = @ + n]
    /\ rRows' = Append(rRows, n)
    /\ UNCHANGED <<rLast, rPrev, rCalls>>
    /\ UNCHANGED notStatus

\* the bridge process restarts: a new Stats, the same log
StatusRestart ==
    /\ rLive # _zero
    /\ rLive' = _zero
    /\ UNCHANGED <<rRows, rLast, rPrev, rCalls>>
    /\ UNCHANGED notStatus

\* GET /status for the station
StatusCall ==
    /\ rCalls < MaxStatus
    /\ rCalls' = rCalls + 1
    /\ rPrev' = rLast
    /\ rLast' = merged(rLive, db_totals_for_station(rRows))
    /\ UNCHANGED <<rLive, rRows>>
    /\ UNCHANGED notStatus

StatusNext == (\E n \in BumpSizes : StatusTraffic(n)) \/ StatusRestart \/ StatusCall

-----------------------------------------------------------------------------
(* Specifications: each one runs one part and holds the others at rest *)

\* the codec at rest: no frame
CodecIdle ==
    /\ cFrame = <<>> /\ cLayout = "short" /\ cOp = "init" /\ cOut = <<>>
    /\ cErr = FALSE /\ cKey = "" /\ cIv = <<>> /\ cNonce = <<>>

\* the ingestor at rest: nothing read
IngestIdle == iBrokerUp = TRUE /\ iConn = "open" /\ iRead = <<>> /\ iRaw = <<>>

\* the evaluation functions at rest: one fixed input
EvalIdle ==
    /\ eArgs = [value |-> Num(0), min_v |-> Null, max_v |-> Null, thresholds |-> Thresholds]
    /\ eDone = FALSE /\ eResult = NoAlert
    /\ tArgs = [tm |-> Envelope(PktEps, <<>>, 1), config_index |-> config_index,
                thresholds |-> Thresholds]
    /\ tDone = FALSE /\ tAlerts = <<>>

\* the parts added after the bridge, at rest
LateIdle == DecodeIdle /\ StoreInit /\ ManagerInit /\ StatsInit /\ StatusInit

RestInit == QueueInit /\ IngestIdle /\ SinkInit /\ EvalIdle /\ AlertInit /\ LateIdle

InitPipe == PipeInit /\ CodecIdle /\ BridgeInit /\ DownInit /\ RestInit

SpecPipe == InitPipe /\ [][PipeNext]_vars

InitCodec == PipeInit /\ CodecInit /\ BridgeInit /\ DownInit /\ RestInit

SpecCodec == InitCodec /\ [][CodecNext]_vars

InitBridge == PipeInit /\ CodecIdle /\ BridgeInit /\ DownInit /\ RestInit

SpecBridge == InitBridge /\ [][BridgeNext]_vars

InitDown == PipeInit /\ CodecIdle /\ BridgeInit /\ DownInit /\ RestInit

SpecDown == InitDown /\ [][DownNext]_vars

InitQueue == PipeInit /\ CodecIdle /\ BridgeInit /\ DownInit /\ RestInit

SpecQueue == InitQueue /\ [][QueueNext]_vars

InitIngest == PipeInit /\ CodecIdle /\ BridgeInit /\ DownInit /\ QueueInit /\ IngestInit
              /\ SinkInit /\ EvalIdle /\ AlertInit /\ LateIdle

SpecIngest == InitIngest /\ [][IngestNext]_vars

InitSink == PipeInit /\ CodecIdle /\ BridgeInit /\ DownInit /\ RestInit

\* run_forever reconnects to the broker after 5 s, and the broker delivers to a
\* connected consumer: both steps happen if they stay possible.
SpecSink == InitSink /\ [][SinkNext]_vars /\ WF_vars(SinkConnect) /\ WF_vars(SinkDeliver)

InitEval == PipeInit /\ CodecIdle /\ BridgeInit /\ DownInit /\ QueueInit /\ IngestIdle
            /\ SinkInit /\ EvalInit /\ AlertInit /\ LateIdle

SpecEval == InitEval /\ [][EvalNext]_vars

InitAlert == PipeInit /\ CodecIdle /\ BridgeInit /\ DownInit /\ RestInit

SpecAlert == InitAlert /\ [][AlertNext]_vars

Init == PipeInit /\ CodecInit /\ BridgeInit /\ DownInit /\ QueueInit /\ IngestInit
        /\ SinkInit /\ EvalInit /\ AlertInit /\ DecodeInit /\ StoreInit /\ ManagerInit /\ StatsInit
              /\ StatusInit

Next == PipeNext \/ CodecNext \/ BridgeNext \/ DownNext \/ QueueNext \/ IngestNext \/ SinkNext \/ EvalNext
        \/ AlertNext \/ DecodeNext \/ StoreNext \/ ManagerNext \/ StatsNext \/ StatusNext

InitDecode == PipeInit /\ CodecIdle /\ BridgeInit /\ DownInit /\ QueueInit /\ IngestIdle
              /\ SinkInit /\ EvalIdle /\ AlertInit /\ DecodeInit /\ StoreInit /\ ManagerInit /\ StatsInit
              /\ StatusInit

SpecDecode == InitDecode /\ [][DecodeNext]_vars

InitStore == PipeInit /\ CodecIdle /\ BridgeInit /\ DownInit /\ RestInit

SpecStore == InitStore /\ [][StoreNext]_vars

InitManager == PipeInit /\ CodecIdle /\ BridgeInit /\ DownInit /\ RestInit

SpecManager == InitManager /\ [][ManagerNext]_vars

InitStats == PipeInit /\ CodecIdle /\ BridgeInit /\ DownInit /\ RestInit

SpecStats == InitStats /\ [][StatsNext]_vars

InitStatus == PipeInit /\ CodecIdle /\ BridgeInit /\ DownInit /\ RestInit

SpecStatus == InitStatus /\ [][StatusNext]_vars

Spec == Init /\ [][Next]_vars

-----------------------------------------------------------------------------
(* Claims about the Health Consumer and the Alert Builder (SpecPipe) *)

\* the decoder module of the packet is missing
DecoderMissing(m) == m.json /\ m.buffer = "ok" /\ ~HasDecoder(m.packet)
\* the decoder exists and raises on the buffer
DecoderRaises(m) == m.json /\ m.buffer = "ok" /\ HasDecoder(m.packet) /\ m.raises
\* the decoder returned at least one row
DecodedRows(m) ==
    m.json /\ m.buffer = "ok" /\ HasDecoder(m.packet) /\ ~m.raises /\ m.rows # <<>>

\* C1: a raw message whose packet has no decoder, or whose decoder raises, is
\* recorded on the dead-letter sink (decoder.not_found, respectively
\* decoder.failed) and acked exactly once.
C1_DecoderIncidentRecordedAndAcked ==
    \A id \in 1..Len(raw) :
        (hcHandled[id] >= 1 /\ (DecoderMissing(raw[id]) \/ DecoderRaises(raw[id])))
        => /\ \E k \in 1..Len(deadLetter) :
                /\ deadLetter[k].src = id
                /\ deadLetter[k].sink = IF DecoderMissing(raw[id])
                                        THEN "decoder.not_found" ELSE "decoder.failed"
           /\ hcAcks[id] = 1

\* the Alert Builder's evaluation of envelope number e raises
EvaluationRaises(e) == evaluate_tm(decoded[e], config_index, Thresholds, 1, e).raised

\* C2: an envelope whose handling raises inside the Alert Builder is acked, no
\* alert is emitted for it, and it is not delivered again.
C2_RaisingEnvelopeAckedNotRedelivered ==
    \A e \in 1..Len(decoded) :
        (abHandled[e] >= 1 /\ EvaluationRaises(e))
        => /\ abAcks[e] = 1
           /\ abHandled[e] = 1
           /\ \A k \in 1..Len(alerts) : alerts[k].env # e

\* C3: a raw message whose decoder returned at least one row is acked only
\* after its envelope was published to telemetry.decoded with routing key equal
\* to the packet name.
C3_AckOnlyAfterEnvelopePublished ==
    \A id \in 1..Len(raw) :
        (hcAcks[id] >= 1 /\ DecodedRows(raw[id]))
        => \E k \in 1..Len(decoded) :
               /\ decoded[k].src = id
               /\ decoded[k].routing_key = raw[id].packet
               /\ Len(decoded[k].data) = Len(raw[id].rows)

\* some value of some row is the datetime object of an epoch transform
HasEpochTimestamp(rows) ==
    \E i \in 1..Len(rows) : \E k \in DOMAIN rows[i] : rows[i][k].kind = "datetime"

\* C4: every decoded row that carries an epoch-derived timestamp is published on
\* telemetry.decoded inside its envelope, the timestamp serialized as an ISO-8601
\* string with offset that the DB Sink parses back to the same timestamp.
C4_TimestampRowsReachDecoded ==
    \A id \in 1..Len(raw) :
        (hcHandled[id] >= 1 /\ DecodedRows(raw[id]) /\ HasEpochTimestamp(raw[id].rows))
        => \E k \in 1..Len(decoded) :
               /\ decoded[k].src = id
               /\ ~HasEpochTimestamp(decoded[k].data)
               /\ convert_datetime_fields(decoded[k].data) = raw[id].rows

-----------------------------------------------------------------------------
(* Claims about the frame codec (SpecCodec) *)

LaidOut == cLayout \in {"wire", "tc", "tm"}

\* C5: for every frame F with the full layout, decrypt_tm_frame(encrypt_frame(F))
\* returns F.
C5_RoundTrip == (cOp = "rt" /\ LaidOut) => (~cErr /\ cOut = cFrame)

\* positions (1-based, in the frame) of the LEN payload bytes and the CRC byte of
\* a frame whose header has hlen bytes
PayloadAndCrc(hlen, frame) ==
    LET n == FromBytesLittle(SubSeq(frame, 4 + hlen - 1, 4 + hlen))
    IN  (4 + hlen + 1)..(4 + hlen + n + 1)

\* the output has the length of the input and differs from it at most at the
\* LEN payload bytes and the CRC byte
OnlyPayloadAndCrcChange(hlen) ==
    /\ Len(cOut) = Len(cFrame)
    /\ \A i \in 1..Len(cFrame) : i \notin PayloadAndCrc(hlen, cFrame) => cOut[i] = cFrame[i]

\* C6 as stated: for a frame laid out as in the wire format of the data model
\* (23 header bytes, LEN the last two), encrypt_frame leaves the CSP, every
\* header byte up to and including LEN, the AUTH bytes and the EOF byte as they
\* are.
C6_WireFormatFrameEffect ==
    (cOp = "enc" /\ cLayout = "wire") => OnlyPayloadAndCrcChange(HeaderLen("wire"))

\* C6 amended: for a frame laid out as encrypt_frame reads it (4 CSP bytes, 21
\* header bytes with LEN the last two, LEN payload bytes, CRC, 32 AUTH bytes,
\* EOF), encrypt_frame changes only the LEN payload bytes and the CRC byte.
C6_TcFrameEffect ==
    (cOp = "enc" /\ cLayout = "tc") => OnlyPayloadAndCrcChange(HeaderLen("tc"))

C6_Witness ==
    /\ cOp = "enc" /\ cLayout = "tc"
    /\ Len(cFrame) = 4 + HeaderLen("tc") + MaxLen + 34
    /\ \A i \in PayloadAndCrc(HeaderLen("tc"), cFrame) : cOut[i] # cFrame[i]

\* C7: the frame encrypt_frame returns has exactly as many bytes as its input,
\* for an input of any byte length.
C7_SameLength == cOp = "enc" => Len(cOut) = Len(cFrame)

\* the EXT_HDR_DATA byte of the input frame
ExtHdrData == cFrame[4 + ExtOffset(cLayout) + 1]

\* C8: encrypt_frame and decrypt_tm_frame both use key K1 when the frame's
\* EXT_HDR_DATA byte is 1 and key K0 otherwise.
C8_KeyFromExtHdrData ==
    (cOp \in {"enc", "dec"} /\ ~cErr /\ cLayout \in {"wire", "tm"})
    => cKey = IF ExtHdrData = 1 THEN KEY1_HEX ELSE KEY0_HEX

\* the two SEQ bytes of the input frame, as they stand on the wire
SeqField == SubSeq(cFrame, 4 + 7 + 1, 4 + 9)

FirstHalf(d) == SubSeq(d, 1, 16)
SecondHalf(d) == SubSeq(d, 17, 32)

\* C9 as stated: the IV is D[0:16] when the SEQ bytes read as a big-endian
\* integer are even and D[16:32] when odd, D the digest of the nonce input.
C9_IvByBigEndianParity ==
    (cOp \in {"enc", "dec"} /\ ~cErr /\ LaidOut)
    => cIv = IF (256 * SeqField[1] + SeqField[2]) % 2 = 0
             THEN FirstHalf(Sha256(cNonce)) ELSE SecondHalf(Sha256(cNonce))

\* C9 amended: the nonce input has 14 bytes and the IV is D[0:16] when the SEQ
\* bytes read as a little-endian integer are even and D[16:32] when odd, in
\* encrypt and in decrypt alike.
C9_IvByLittleEndianParity ==
    (cOp \in {"enc", "dec"} /\ ~cErr /\ LaidOut)
    => /\ Len(cNonce) = 14
       /\ cIv = IF (SeqField[1] + 256 * SeqField[2]) % 2 = 0
                THEN FirstHalf(Sha256(cNonce)) ELSE SecondHalf(Sha256(cNonce))

C9_Witness ==
    /\ cOp = "dec" /\ ~cErr /\ LaidOut
    /\ SeqField[1] % 2 = 1 /\ SeqField[2] % 2 = 0
    /\ cIv = SecondHalf(Sha256(cNonce))

-----------------------------------------------------------------------------
(* Claims about the bridge uplink (SpecBridge) *)

\* number of entries of sequence q that satisfy Test
CountIn(q, i, Test(_)) == Cardinality({k \in i..Len(q) : Test(q[k])})

-----------------------------------------------------------------------------
(* Claims about the bridge downlink (SpecDown) *)

\* the message fails JSON parsing, base64 decoding or decryption
DownFails(m) == m.kind # "ok" \/ DecryptParts(m.frame).err

\* C11: when the message station s handled last failed JSON parsing, base64
\* decoding or decryption, then once the handler is back idle nothing was
\* published to broker A for it, the cosmos/telemetry counters and log rows of s
\* are as they were when the message arrived, SatOS/downlink.rx_msgs of s is one
\* more and the inbound payload is one more row of s on SatOS/downlink.
C11_FailedDownlinkLoggedNotForwarded ==
    \A s \in Stations :
        (dPc[s] = "idle" /\ dRecv[s] >= 1 /\ DownFails(dMsg[s]))
        => LET now == Observe(s)
               rows == bLog["SatOS/downlink"]
           IN  /\ now.pubA = dPre[s].pubA
               /\ now.tlm = dPre[s].tlm
               /\ now.tlmRows = dPre[s].tlmRows
               /\ now.down.rx_msgs = dPre[s].down.rx_msgs + 1
               /\ now.down.tx_msgs = dPre[s].down.tx_msgs
               /\ now.downRows = dPre[s].downRows + 1
               /\ \E k \in 1..Len(rows) :
                      rows[k].station_id = s /\ rows[k].raw_blob = dMsg[s]

C11_Witness ==
    \E s \in Stations :
        /\ dPc[s] = "idle" /\ dRecv[s] >= 2
        /\ dMsg[s].kind = "ok" /\ DownFails(dMsg[s])
        /\ dPre[s].pubA = 1

-----------------------------------------------------------------------------
(* Claims about deliveries (SpecQueue) *)

\* C12: whenever the Health Consumer's callback runs on a raw message, every
\* message of the same packet published earlier has already been handled and no
\* message of the same packet published later has been handled yet, also when
\* the run follows a reconnect.
C12_PerPacketPublishOrder ==
    [][\A i \in 1..Len(qLog) :
          qHandled'["health_consumer"][i] > qHandled["health_consumer"][i] =>
              \A j \in 1..Len(qLog) :
                  (j # i /\ qLog[j].packet = qLog[i].packet) =>
                      IF j < i THEN qHandled["health_consumer"][j] >= 1
                               ELSE qHandled["health_consumer"][j] = 0]_vars

\* two messages of one packet were handled, and between them the consumer
\* reconnected twice because of a message of another packet
C12_Witness ==
    \E i, j, k \in 1..Len(qLog) :
        /\ i < k /\ k < j
        /\ qLog[i].packet = qLog[j].packet
        /\ qLog[k].packet # qLog[i].packet
        /\ qHandled["health_consumer"][i] = 1
        /\ qHandled["health_consumer"][k] = 2
        /\ qHandled["health_consumer"][j] = 1

\* consumer c acked message id
AckedBy(c, id) == qHandled[c][id] >= 1 /\ Handling(c, id).ack

\* queue q holds message id: ready, or delivered to its consumer c and unacked
Holds(q, c, id) ==
    \/ \E k \in 1..Len(qReady[q]) : qReady[q][k] = id
    \/ \E k \in 1..Len(qUnacked[c]) : qUnacked[c][k] = [queue |-> q, id |-> id]

\* C13: every envelope published to telemetry.decoded is kept for each of the
\* two subscribers: it is in q.decoded.db_persistence until the DB Sink acks it
\* and in q.decoded.alerts until the Alert Builder acks it, whatever the order in
\* which the Health Consumer, the DB Sink and the Alert Builder start.
C13_EnvelopeKeptForBothSubscribers ==
    \A k \in 1..Len(qDecoded) :
        /\ Holds("q.decoded.db_persistence", "dbworker", qDecoded[k])
           \/ AckedBy("dbworker", qDecoded[k])
        /\ Holds("q.decoded.alerts", "alert_builder", qDecoded[k])
           \/ AckedBy("alert_builder", qDecoded[k])

\* C15: no consumer ever has more than one delivered-but-unacked message.
C15_AtMostOneUnacked == \A c \in Consumers : Len(qUnacked[c]) <= 1

-----------------------------------------------------------------------------
(* Claims about the ingestor (SpecIngest) *)

\* C14: every record read from the upstream stream is on telemetry.raw,
\* unmodified and with its __packet field as routing key, once the ingestor has
\* gone on to the next read; no record is dropped when the broker connection or
\* the channel is unavailable.
C14_EveryRecordPublished ==
    /\ Len(iRaw) = Len(iRead)
    /\ \A k \in 1..Len(iRead) :
          iRaw[k] = [routing_key |-> routing_key(iRead[k]), body |-> iRead[k]]

-----------------------------------------------------------------------------
(* Claims about the DB Sink (SpecSink) *)

\* C16: if the database, after any losses of the connection, stays reachable
\* from some moment on, then every envelope routed to the DB Sink's queue is
\* eventually acked, with its rows inserted or the refused INSERT recorded.
C16_ResumesAfterDatabaseBack ==
    (<>[]pgUp) =>
        \A i \in 1..MaxEnv :
            [](i <= Len(dbLog) => <>(i \in dbAcked /\ i \in dbInserted \cup dbFailed))

-----------------------------------------------------------------------------
(* Claims about the alert evaluation functions (SpecEval) *)

\* the value lies outside a limit that is set
OutsideLimits == \/ eArgs.min_v.kind # "null" /\ eArgs.value.v < eArgs.min_v.v
                 \/ eArgs.max_v.kind # "null" /\ eArgs.value.v > eArgs.max_v.v

\* both limits are set and differ, and the value is not outside them
InsideLimits ==
    /\ eArgs.min_v.kind # "null" /\ eArgs.max_v.kind # "null"
    /\ eArgs.min_v.v < eArgs.max_v.v
    /\ ~OutsideLimits

RangeOfLimits == eArgs.max_v.v - eArgs.min_v.v

UsedOfRange ==
    RangeOfLimits - Min2(eArgs.value.v - eArgs.min_v.v, eArgs.max_v.v - eArgs.value.v)

\* 100 * (1 - distance / range) >= t, as a comparison of integers
ExactAtLeast(t) == 100 * UsedOfRange >= t * RangeOfLimits

\* 100 * (1 - distance / range) rounded to two decimals is >= t, that is the
\* exact percentage is >= t - 0.005
RoundedAtLeast(t) == 20000 * UsedOfRange >= (200 * t - 1) * RangeOfLimits

\* C17 as stated: RED with percent 100 outside the limits; inside them the
\* severity is chosen by comparing 100 * (1 - distance / range) itself with
\* red_percent, amber_percent and yellow_percent, and below yellow_percent
\* there is no alert.
C17_SeverityByExactPercent ==
    eDone =>
        /\ OutsideLimits => eResult.severity = "RED" /\ eResult.percent = 10000
        /\ InsideLimits =>
              eResult.severity =
                  IF ExactAtLeast(eArgs.thresholds.red_percent) THEN "RED"
                  ELSE IF ExactAtLeast(eArgs.thresholds.amber_percent) THEN "AMBER"
                  ELSE IF ExactAtLeast(eArgs.thresholds.yellow_percent) THEN "YELLOW"
                  ELSE "NONE"

\* C17, amended: RED with percent 100 outside the limits; inside them the
\* percentage is rounded to two decimals before it is compared, the rounded
\* percentage is the one returned, and there is no alert when it is below
\* yellow_percent or when a limit is missing or both limits are equal.
C17_SeverityByRoundedPercent ==
    eDone =>
        /\ OutsideLimits => eResult.severity = "RED" /\ eResult.percent = 10000
        /\ InsideLimits =>
              /\ eResult.severity =
                    IF RoundedAtLeast(eArgs.thresholds.red_percent) THEN "RED"
                    ELSE IF RoundedAtLeast(eArgs.thresholds.amber_percent) THEN "AMBER"
                    ELSE IF RoundedAtLeast(eArgs.thresholds.yellow_percent) THEN "YELLOW"
                    ELSE "NONE"
              /\ eResult.severity # "NONE" =>
                    /\ 2 * RangeOfLimits * eResult.percent - 20000 * UsedOfRange <= RangeOfLimits
                    /\ 20000 * UsedOfRange - 2 * RangeOfLimits * eResult.percent <= RangeOfLimits
        /\ (~OutsideLimits /\ ~InsideLimits) => eResult = NoAlert

\* a value inside the limits got YELLOW although its exact percentage is below
\* yellow_percent
C17_Witness ==
    /\ eDone /\ InsideLimits
    /\ eResult.severity = "YELLOW"
    /\ ~ExactAtLeast(eArgs.thresholds.yellow_percent)

\* the thresholds in force for an alert: the packet rule's own, else the global
InForce(a) ==
    LET packet_cfg == tArgs.config_index[a.queue_id]
    IN  IF "thresholds" \in DOMAIN packet_cfg THEN packet_cfg.thresholds ELSE tArgs.thresholds

\* the severity thresholds th select for alert a
SelectedBy(th, a) ==
    IF a.value.v < a.min.v \/ a.value.v > a.max.v THEN "RED"
    ELSE IF a.severity_percent >= 100 * th.red_percent THEN "RED"
    ELSE IF a.severity_percent >= 100 * th.amber_percent THEN "AMBER"
    ELSE "YELLOW"

\* C18 as stated: every alert has severity_percent >= 80 and the severity the
\* thresholds in force select.
C18_PercentAtLeast80 ==
    tDone => \A k \in 1..Len(tAlerts) :
                /\ tAlerts[k].severity_percent >= 8000
                /\ tAlerts[k].severity = SelectedBy(InForce(tAlerts[k]), tAlerts[k])

\* C18, amended: every alert has severity_percent >= the yellow_percent of the
\* thresholds in force (the packet's own when its rule defines thresholds, the
\* global ones otherwise) and the severity those thresholds select.
C18_PercentAtLeastYellowInForce ==
    tDone => \A k \in 1..Len(tAlerts) :
                /\ tAlerts[k].severity_percent >= 100 * InForce(tAlerts[k]).yellow_percent
                /\ tAlerts[k].severity = SelectedBy(InForce(tAlerts[k]), tAlerts[k])

\* an alert of a packet with thresholds of its own, where they select another
\* severity than the global thresholds would
C18_Witness ==
    /\ tDone
    /\ \E k \in 1..Len(tAlerts) :
          /\ "thresholds" \in DOMAIN tArgs.config_index[tAlerts[k].queue_id]
          /\ tAlerts[k].severity # SelectedBy(tArgs.thresholds, tAlerts[k])

-----------------------------------------------------------------------------
(* Claims about the alert life cycle (SpecAlert) *)

\* the steps of alert_identified -> alert_notified -> acknowledged ->
\* resolved or dismissed
StatusSteps ==
    { <<"alert_identified", "alert_notified">>, <<"alert_notified", "acknowledged">>,
      <<"acknowledged", "resolved">>, <<"acknowledged", "dismissed">> }

\* C19: the stored status of an alert changes only by one of the steps
\* alert_identified -> alert_notified -> acknowledged -> resolved or dismissed;
\* every other requested change leaves it as it was.
C19_StatusMovesAlongLifeCycle ==
    [][\A id \in 1..Len(aTables[WorkerTable]) :
          aTables'[WorkerTable][id].status # aTables[WorkerTable][id].status =>
              <<aTables[WorkerTable][id].status, aTables'[WorkerTable][id].status>>
                  \in StatusSteps]_vars

\* C20: in the step in which the Notifier sends or logs the notification of a
\* persisted alert, the row of that alert in the Alert Worker's table gets
\* status alert_notified.
C20_NotifiedAfterSend ==
    [][\A id \in aSent' \ aSent :
          aTables'[WorkerTable][id].status = "alert_notified"]_vars

\* C21: every message in alert.notify carries the db_id of a row the Alert
\* Worker inserted into its table.
C21_NotifyCarriesPersistedId ==
    \A k \in 1..Len(aNotify) : aNotify[k].db_id \in 1..Len(aTables[WorkerTable])

-----------------------------------------------------------------------------
(* Claims about the schema-driven decoders (SpecDecode) *)

\* the decode of a payload whose header could be read has returned
Returned == xPc = "done" /\ ~HeaderFails(xData)

Announced == parse_common_header(xData).Number_of_Instances

\* where the instance that starts at st ends, by the layout of the schema
InstanceEnd(s, data, st) ==
    IF s \in VariableLength
    THEN IF st + 6 > Len(data) THEN Len(data) + 1 ELSE st + 6 + 2 * data[st + 6]
    ELSE st + segment_len_bytes(s)

\* the k instances laid out from st on are all whole in the payload
RECURSIVE WholeFrom(_, _, _, _)
WholeFrom(s, data, st, k) ==
    \/ k = 0
    \/ /\ InstanceEnd(s, data, st) <= Len(data)
       /\ WholeFrom(s, data, InstanceEnd(s, data, st), k - 1)

NoTruncation == WholeFrom(xSchema, xData, HeaderEnd, Announced)

\* a whole instance whose field transform raises: an EPOCH64 value that is not
\* the all-ones marker and lies beyond the last instant datetime can hold
TransformRaisesAt(s, data, st) ==
    /\ s = "HEALTH_EPS_SES_TEMP"
    /\ \E k \in 1..8 : data[st + k] # 255
    /\ EpochOutOfRange(bytesAt(data, st, 8))

RECURSIVE RaisesWithin(_, _, _, _)
RaisesWithin(s, data, st, k) ==
    /\ k > 0
    /\ InstanceEnd(s, data, st) <= Len(data)
    /\ \/ TransformRaisesAt(s, data, st)
       \/ RaisesWithin(s, data, InstanceEnd(s, data, st), k - 1)

NoInstanceRaises == ~RaisesWithin(xSchema, xData, HeaderEnd, Announced)

\* C22 as stated: the decoder returns at most N = Number_of_Instances rows, and
\* exactly N rows if and only if no instance is truncated; with N = 0 it returns
\* no rows.
C22_ExactlyNIffNoTruncation ==
    Returned =>
        /\ Len(xRows) <= Announced
        /\ (Len(xRows) = Announced) <=> NoTruncation
        /\ (Announced = 0 => xRows = <<>>)

\* C22, amended: the decoder returns at most N rows, and exactly N rows if and
\* only if no instance is truncated and no instance raises while it is decoded;
\* with N = 0 it returns no rows, and a payload that ends early ends the decode
\* with the rows read so far.
C22_ExactlyNIffNoTruncationNoRaise ==
    /\ xPc \in {"start", "loop", "done"}
    /\ Returned =>
        /\ Len(xRows) <= Announced
        /\ (Len(xRows) = Announced) <=> (NoTruncation /\ NoInstanceRaises)
        /\ (Announced = 0 => xRows = <<>>)

\* the case of C22: two whole instances announced, one of them raises, one row
C22_Witness ==
    /\ Returned /\ xSchema = "HEALTH_EPS_SES_TEMP"
    /\ Announced = 2 /\ NoTruncation /\ ~NoInstanceRaises
    /\ Len(xRows) = 1

\* the instance at the reader's position is being decoded and its decoding raises
InstanceRaises ==
    /\ xPc = "loop" /\ xIdx < xCount
    /\ remaining(xData, xI) >= segment_len_bytes(xSchema)
    /\ ~ReadSegment(xSchema, xData, xI).ok

\* C23: when decoding instance i raises, decoding continues with instance i+1,
\* for fixed-length and variable-length segments alike, and for a fixed-length
\* segment the reader is placed at the instance's start plus one segment length.
C23_ResyncAndContinue ==
    [][InstanceRaises =>
          /\ xPc' = "loop" /\ xIdx' = xIdx + 1
          /\ xSchema \notin VariableLength => xI' = xI + segment_len_bytes(xSchema)]_vars

-----------------------------------------------------------------------------
(* Claims about the packet tables (SpecStore) *)

TargetTables == { target_table(p) : p \in PacketNames }

FailedSet == { sFailed[i] : i \in DOMAIN sFailed }

\* the rows table t holds if each of the first n envelopes that was persisted
\* added one copy of each of its rows, in order
RECURSIVE ExpectedRows(_, _)
ExpectedRows(t, n) ==
    IF n = 0 THEN <<>>
    ELSE ExpectedRows(t, n - 1) \o
         (IF target_table(sSeen[n].packet_name) = t /\ n \notin FailedSet
          THEN Inserted(sTables[t], sSeen[n].data)
          ELSE <<>>)

\* a second ensure_table_for_packet with the same name and sample row changes
\* neither the set of tables, nor their columns, nor their rows
EnsureIdempotent ==
    \A t \in TargetTables, r \in TableRows :
        LET once == ensure_table_for_packet(sTables, t, r)
        IN  ensure_table_for_packet(once, t, r) = once

OneCopyPerPersistedEnvelope ==
    \A t \in DOMAIN sTables : sTables[t].rows = ExpectedRows(t, Len(sSeen))

Persisting == Len(sSeen') = Len(sSeen) + 1

Latest == sSeen'[Len(sSeen')]

\* position in sSeen of the first envelope for table t
FirstFor(t) ==
    CHOOSE i \in 1..Len(sSeen) :
        /\ target_table(sSeen[i].packet_name) = t
        /\ \A j \in 1..(i - 1) : target_table(sSeen[j].packet_name) # t

-----------------------------------------------------------------------------
(* Claims about the bridge API and BridgeManager (SpecManager) *)

\* the step takes a request
Taken == mCount' = mCount + 1

\* C26 as stated: a request without X-User-Roles is answered 401, one with a
\* role outside SUPER_ADMIN, ADMIN, MISSION_OPERATOR 403, one for an unknown
\* station 404, and a rejected request leaves the bridges unchanged.
C26_CodeByRoleAndStation ==
    [][Taken =>
          LET req == mLast'.req
          IN  /\ mLast'.code = IF req.roles = "" THEN 401
                               ELSE IF req.roles \notin CONNECTION_ROLES THEN 403
                               ELSE IF req.station \notin STATIONS THEN 404
                               ELSE 200
              /\ mLast'.code # 200 => UNCHANGED <<mRunners, mObjs, mReq>>]_vars

\* C26, amended: a request without X-User-Id or without X-User-Roles is
\* answered 401; one that carries X-User-Id and a role outside SUPER_ADMIN,
\* ADMIN, MISSION_OPERATOR 403; one that carries X-User-Id and such a role for
\* an unknown station 404; a rejected request leaves the bridges unchanged, so
\* a bridge is started or stopped only by a request with one of the three roles.
C26_CodeByUserRoleAndStation ==
    [][Taken =>
          LET req == mLast'.req
          IN  /\ mLast'.code = IF req.user_id = "" \/ req.roles = "" THEN 401
                               ELSE IF req.roles \notin CONNECTION_ROLES THEN 403
                               ELSE IF req.station \notin STATIONS THEN 404
                               ELSE 200
              /\ mLast'.code # 200 => UNCHANGED <<mRunners, mObjs, mReq>>
              /\ <<mRunners, mObjs, mReq>>' # <<mRunners, mObjs, mReq>>
                    => req.roles \in CONNECTION_ROLES]_vars

\* the case of C26: while a bridge is running, a request with the role USER was
\* answered 403
C26_Witness ==
    /\ mLast.code = 403 /\ mLast.req.roles = "USER" /\ mLast.req.op = "disconnect"
    /\ RunnerAlive(mRunners, mObjs, "gs1") /\ ~mObjs[mRunners["gs1"]].stop

\* the runners of station s whose worker thread is alive
LiveWorkers(s) == { n \in DOMAIN mObjs : mObjs[n].station = s /\ mObjs[n].thread = "alive" }

\* C28: at most one worker thread per station is alive, and every live worker is
\* the runner registered for its station in BridgeManager.runners.
C28_OneRegisteredWorkerPerStation ==
    \A s \in STATIONS :
        /\ Cardinality(LiveWorkers(s)) <= 1
        /\ \A n \in LiveWorkers(s) : mRunners[s] = n

\* request thread t returns {"ok": True} from /connect in this step
ConnectReturns(t) == mReq[t].pc \in {"check", "start"} /\ mReq'[t].pc = "idle"

\* C29: when a connect request returns ok, the station has a live worker that is
\* not flagged to stop.
C29_ConnectedMeansLiveUnflaggedWorker ==
    [][\A t \in ReqThreads :
          ConnectReturns(t) =>
              \E n \in DOMAIN mObjs' :
                  /\ mObjs'[n].station = mReq[t].station
                  /\ mObjs'[n].thread = "alive" /\ ~mObjs'[n].stop]_vars

-----------------------------------------------------------------------------
(* Claims about Stats under threads (SpecStats) *)

NoBumpInFlight == \A t \in BumpThreads : kThr[t].pc \in {"idle", "acquire"}

\* C27: under any interleaving of bump and snapshot calls no increment is lost
\* (once the bumps have returned, the message counter is their number and the
\* byte counter the sum of their sizes), a snapshot shows exactly the bumps that
\* had returned when it was taken, and later bumps do not change it.
C27_NoLostIncrementSnapshotIsCopy ==
    /\ NoBumpInFlight => kCounters = kDone
    /\ \A i \in 1..Len(kSnaps) :
          /\ kSnaps[i].seen = kSnaps[i].done
          /\ Deref(kSnaps[i].snap) = kSnaps[i].seen

\* the case of C27: two bumps of one direction from two threads have returned,
\* and a snapshot taken after the first of them is still what it was
C27_Witness ==
    /\ NoBumpInFlight /\ kCounters.rx_msgs = 2 /\ kCounters.rx_bytes = 4
    /\ kThr[1].pc = "idle" /\ kThr[2].pc = "idle"
    /\ \E i \in 1..Len(kSnaps) : kSnaps[i].seen.rx_msgs = 1

-----------------------------------------------------------------------------
(* Claims about the status operation (SpecStatus) *)

\* C30: the message and byte counters that status returns for a station and
\* topic never decrease from one call to the next while the log is kept, also
\* across a restart of the bridge process.
C30_StatusCountersNeverDecrease ==
    rCalls >= 2 =>
        /\ rLast.rx_msgs >= rPrev.rx_msgs
        /\ rLast.rx_bytes >= rPrev.rx_bytes

=============================================================================
